---- MODULE Spec2Model ----
(***************************************************************************)
(* Elenath: the celestial-system data model (src/model) and the message    *)
(* loop of the GUI (src/gui/message.rs, src/gui/gui_widget.rs).            *)
(*                                                                         *)
(* Physical quantities are f64 in the program.  They are modelled as small *)
(* naturals plus one NaN value: partial_cmp yields no ordering for NaN,    *)
(* which the sorting code maps to Ordering::Equal.                         *)
(* Quantities computed by the astro_utils crate (apparent illuminance of a *)
(* star at a time, apparently_the_same) are modelled by small closed forms *)
(* that keep what the code relies on: illuminance depends on the star data *)
(* and on the time, and it changes with time only for an evolving star.    *)
(***************************************************************************)
EXTENDS Integers, Sequences, FiniteSets, TLC

VARIABLES
    celestial_system,      \* Gui.celestial_system : Option<CelestialSystem>
    opened_file,           \* Gui.opened_file : Option<PathBuf>
    mode,                  \* Gui.mode
    time_step,             \* Gui.time_step
    selected_planet_name,  \* Gui.selected_planet_name
    dialog,                \* Gui.dialog : Option<Box<dyn Dialog>>
    surface_view_state,    \* Gui.surface_view_state
    top_view_state,        \* Gui.top_view_state
    display_names,         \* Gui.display_names
    display_constellations,\* Gui.display_constellations
    aborted,               \* the process has panicked
    last                   \* history: the operation handled by the last step

vars == <<celestial_system, opened_file, mode, time_step,
          selected_planet_name, dialog, surface_view_state, top_view_state,
          display_names, display_constellations, aborted, last>>

(***************************************************************************)
(* Bounds of the model.                                                    *)
(***************************************************************************)
MaxPlanets == 3
MaxStars == 3
MaxTime == 1
RealPlanetCount == 2
GuiMaxBodies == 2

(***************************************************************************)
(* f64 values and their partial order.                                     *)
(***************************************************************************)
NaN == -1

None == "None"

partial_cmp(a, b) ==
    IF a = NaN \/ b = NaN THEN None
    ELSE IF a < b THEN "Less"
    ELSE IF a = b THEN "Equal"
    ELSE "Greater"

unwrap_or_Equal(o) == IF o = None THEN "Equal" ELSE o

\* a <= b and a >= b on f64: false as soon as one side is NaN
f64_le(a, b) == partial_cmp(a, b) \in {"Less", "Equal"}
f64_ge(a, b) == partial_cmp(a, b) \in {"Greater", "Equal"}

f64_add(a, b) == IF a = NaN \/ b = NaN THEN NaN ELSE a + b

(***************************************************************************)
(* PlanetData: the name and the orbit's semi-major axis.                   *)
(***************************************************************************)
PlanetNames == {"", "Ares"}
SemiMajorAxes == {1, 2, 3, NaN}
PlanetInputs == [name : PlanetNames, sma : SemiMajorAxes]

\* astro_utils::real_data::planets, in the order load_real_planets adds them
RealPlanetCatalog ==
    << [name |-> "Mercury", sma |-> 1], [name |-> "Venus", sma |-> 2],
       [name |-> "Earth", sma |-> 3], [name |-> "Mars", sma |-> 4],
       [name |-> "Ceres", sma |-> 5], [name |-> "Jupiter", sma |-> 6],
       [name |-> "Saturn", sma |-> 7], [name |-> "Uranus", sma |-> 8],
       [name |-> "Neptune", sma |-> 9], [name |-> "Pluto", sma |-> 10] >>

RealPlanets ==
    SubSeq(RealPlanetCatalog, 1,
           IF RealPlanetCount < Len(RealPlanetCatalog)
           THEN RealPlanetCount ELSE Len(RealPlanetCatalog))

(***************************************************************************)
(* StarData, StarAppearance and Star.                                      *)
(*   pos  : where the star is; "origin" is distance zero                   *)
(*   lum  : its illuminance at the epoch                                   *)
(*   rate : how much the illuminance grows per unit of time (evolution)    *)
(***************************************************************************)
Times == 0 .. MaxTime

StarData(pos, lum, rate) == [pos |-> pos, lum |-> lum, rate |-> rate]

StarInputs ==
    { StarData("north", 2, 0), StarData("south", 1, 2), StarData("south", NaN, 0) }

StarAppearance(pos, illum, time) == [pos |-> pos, illum |-> illum, time |-> time]

\* what a catalog query may return
AppearanceInputs ==
    { StarAppearance("north", 2, 0), StarAppearance("east", 1, 0),
      StarAppearance("east", 3, 0) }

to_star_appearance(data, time_since_epoch) ==
    StarAppearance(data.pos, f64_add(data.lum, data.rate * time_since_epoch),
                   time_since_epoch)

has_changed(data, then, now) == data.rate # 0 /\ then # now

apparently_the_same(a, b) == a.pos = b.pos /\ partial_cmp(a.illum, b.illum) = "Equal"

Some(x) == [some |-> TRUE, v |-> x]
NoneOpt == [some |-> FALSE]

\* StarData::set_distance_at_epoch of astro_utils: the star is moved along its
\* direction to the given distance.  Of the distance the model keeps whether
\* it is zero ("origin"), a number, or NaN ("nowhere"); a star at the origin
\* has no direction and is moved towards "north".
set_distance_at_epoch(data, distance) ==
    [data EXCEPT !.pos = IF distance = 0 THEN "origin"
                         ELSE IF distance = NaN THEN "nowhere"
                         ELSE IF @ \in {"origin", "nowhere"} THEN "north"
                         ELSE @]

Star_from_data(data, index, time_since_epoch) ==
    [data |-> Some(data),
     appearance |-> to_star_appearance(data, time_since_epoch),
     index |-> index]

Star_from_appearance(appearance, index) ==
    [data |-> NoneOpt, appearance |-> appearance, index |-> index]

set_index(star, i) == [star EXCEPT !.index = Some(i)]

recalculate_appearance_if_necessary(star, time_since_epoch) ==
    IF star.data.some /\ has_changed(star.data.v, star.appearance.time, time_since_epoch)
    THEN [star EXCEPT !.appearance = to_star_appearance(star.data.v, time_since_epoch)]
    ELSE star

(***************************************************************************)
(* CelestialSystem (the constellations are derived from the stars by       *)
(* update_constellations and are not part of this model).                  *)
(***************************************************************************)
CelestialSystem(central_body, planets, distant_stars, time_since_epoch) ==
    [central_body |-> central_body, planets |-> planets,
     distant_stars |-> distant_stars, time_since_epoch |-> time_since_epoch]

empty == CelestialSystem(StarData("origin", 0, 0), <<>>, <<>>, 0)

\* CelestialSystem::new
CelestialSystem_new(central_body) ==
    CelestialSystem(set_distance_at_epoch(central_body, 0), <<>>, <<>>, 0)

\* slice::sort_by on a short slice: a stable insertion sort driven by is_less
RECURSIVE insert_planet(_, _)
insert_planet(sorted, p) ==
    IF sorted = <<>> THEN <<p>>
    ELSE LET tail == sorted[Len(sorted)]
             is_less == unwrap_or_Equal(partial_cmp(p.sma, tail.sma)) = "Less"
         IN  IF is_less
             THEN Append(insert_planet(SubSeq(sorted, 1, Len(sorted) - 1), p), tail)
             ELSE Append(sorted, p)

RECURSIVE sorted_planets(_)
sorted_planets(s) ==
    IF s = <<>> THEN <<>>
    ELSE insert_planet(sorted_planets(SubSeq(s, 1, Len(s) - 1)), s[Len(s)])

\* a planet list that is left as it is
planets_left_unsorted(sys) == sys

sort_planets_by_semimajor_axis(sys) ==
    [sys EXCEPT !.planets = sorted_planets(sys.planets)]

add_planet_data(sys, planet) ==
    sort_planets_by_semimajor_axis([sys EXCEPT !.planets = Append(@, planet)])

\* index is 0-based as in the program; the caller guarantees index < len
overwrite_planet_data(sys, index, planet) ==
    sort_planets_by_semimajor_axis([sys EXCEPT !.planets[index + 1] = planet])

RECURSIVE add_all_planets(_, _)
add_all_planets(sys, ps) ==
    IF ps = <<>> THEN sys
    ELSE add_all_planets(add_planet_data(sys, Head(ps)), Tail(ps))

load_real_planets(sys) ==
    add_all_planets([sys EXCEPT !.planets = <<>>], RealPlanets)

get_planets_data(sys) == sys.planets

get_planet_data(sys, index) ==
    IF index >= 0 /\ index < Len(sys.planets) THEN Some(sys.planets[index + 1]) ELSE NoneOpt

(***************************************************************************)
(* Stars of the system.                                                    *)
(***************************************************************************)
\* the comparator is |a, b| illum(b).partial_cmp(&illum(a)).unwrap_or(Equal)
RECURSIVE insert_star(_, _)
insert_star(sorted, s) ==
    IF sorted = <<>> THEN <<s>>
    ELSE LET tail == sorted[Len(sorted)]
             is_less == unwrap_or_Equal(
                            partial_cmp(tail.appearance.illum, s.appearance.illum)) = "Less"
         IN  IF is_less
             THEN Append(insert_star(SubSeq(sorted, 1, Len(sorted) - 1), s), tail)
             ELSE Append(sorted, s)

RECURSIVE sorted_stars(_)
sorted_stars(s) ==
    IF s = <<>> THEN <<>>
    ELSE insert_star(sorted_stars(SubSeq(s, 1, Len(s) - 1)), s[Len(s)])

\* sorting that forgets to renumber the stars
sort_stars_without_reindexing(sys) ==
    [sys EXCEPT !.distant_stars = sorted_stars(sys.distant_stars)]

sort_stars_by_brightness(sys) ==
    LET stars == sorted_stars(sys.distant_stars)
    IN  [sys EXCEPT !.distant_stars =
             [i \in 1 .. Len(stars) |-> set_index(stars[i], i - 1)]]

\* star processing that forgets to sort
process_stars_without_sorting(sys) == sys

\* update_constellations is not modelled, see CelestialSystem
process_stars(sys) == sort_stars_by_brightness(sys)

add_stars_from_data(sys, star_data) ==
    LET index == Len(sys.distant_stars)
        pushed == [i \in 1 .. Len(star_data) |->
                      Star_from_data(star_data[i], Some(index), sys.time_since_epoch)]
    IN  process_stars([sys EXCEPT !.distant_stars = @ \o pushed])

get_distant_star_appearances(sys) ==
    [i \in 1 .. Len(sys.distant_stars) |-> sys.distant_stars[i].appearance]

\* the position (1-based) of the first appearance that matches, 0 when none does
RECURSIVE first_match(_, _, _)
first_match(star_appearances, known_star, from) ==
    IF from > Len(star_appearances) THEN 0
    ELSE IF apparently_the_same(star_appearances[from], known_star) THEN from
    ELSE first_match(star_appearances, known_star, from + 1)

remove_known_star_from_list(star_appearances, known_star) ==
    LET index_to_remove == first_match(star_appearances, known_star, 1)
    IN  IF index_to_remove = 0 THEN star_appearances
        ELSE SubSeq(star_appearances, 1, index_to_remove - 1)
             \o SubSeq(star_appearances, index_to_remove + 1, Len(star_appearances))

RECURSIVE remove_known_stars(_, _)
remove_known_stars(star_appearances, known) ==
    IF known = <<>> THEN star_appearances
    ELSE remove_known_stars(remove_known_star_from_list(star_appearances, Head(known)),
                            Tail(known))

add_star_appearances_without_duplicates(sys, star_appearances) ==
    LET left == remove_known_stars(star_appearances, get_distant_star_appearances(sys))
        n == Len(sys.distant_stars)
        pushed == [i \in 1 .. Len(left) |-> Star_from_appearance(left[i], Some(n + i - 1))]
    IN  process_stars([sys EXCEPT !.distant_stars = @ \o pushed])

\* index is an Option<usize>; Some(index) must be below the number of stars
overwrite_star_data(sys, index, star_data) ==
    process_stars(
        IF index.some
        THEN [sys EXCEPT !.distant_stars[index.v + 1] =
                  Star_from_data(star_data, Some(index.v), sys.time_since_epoch)]
        ELSE [sys EXCEPT !.central_body = star_data])

set_time_since_epoch(sys, time_since_epoch) ==
    [sys EXCEPT !.time_since_epoch = time_since_epoch,
                !.distant_stars =
                    [i \in 1 .. Len(@) |->
                        recalculate_appearance_if_necessary(@[i], time_since_epoch)]]

get_stars(sys) ==
    <<Star_from_data(sys.central_body, NoneOpt, sys.time_since_epoch)>>
    \o sys.distant_stars

\* the data of a blank star for a star that has none
get_star_data_or_default(sys, index) ==
    IF index.some
    THEN IF index.v >= 0 /\ index.v < Len(sys.distant_stars)
         THEN IF sys.distant_stars[index.v + 1].data.some
              THEN sys.distant_stars[index.v + 1].data
              ELSE Some(StarData("origin", 0, 0))
         ELSE NoneOpt
    ELSE Some(sys.central_body)

get_star_data(sys, index) ==
    IF index.some
    THEN IF index.v >= 0 /\ index.v < Len(sys.distant_stars)
         THEN sys.distant_stars[index.v + 1].data
         ELSE NoneOpt
    ELSE Some(sys.central_body)

get_central_body_data(sys) == sys.central_body

(***************************************************************************)
(* Randomizing and loading stars.  What the generators and the catalog     *)
(* queries return is an input of the operation: NoneOpt stands for their   *)
(* error, Some(list) for their result.                                     *)
(***************************************************************************)
Sun == StarData("origin", 1, 0)

\* astro_utils::real_data::stars::all::get_many_stars, cut to one star
HardcodedStars == << StarData("north", 2, 0) >>

SysOk(s) == [res |-> "Ok", sys |-> s]
SysErr(s, e) == [res |-> "Err", sys |-> s, error |-> e]

randomize_stars(s, keep_central_body, random_central, random_stars) ==
    IF ~keep_central_body /\ ~random_central.some THEN SysErr(s, "AstroUtilsError")
    ELSE LET s1 == IF keep_central_body THEN s
                   ELSE [s EXCEPT !.central_body = random_central.v]
         IN  IF ~random_stars.some THEN SysErr(s1, "AstroUtilsError")
             ELSE SysOk(add_stars_from_data(s1, random_stars.v))

load_gaia_data(s, gaia_stars) ==
    LET s1 == add_stars_from_data(s, HardcodedStars)
    IN  IF ~gaia_stars.some THEN SysErr(s1, "AstroUtilsError")
        ELSE SysOk(add_star_appearances_without_duplicates(s1, gaia_stars.v))

StarDataTypes == {"Hardcoded", "GaiaMeasurementSmall", "GaiaMeasurementLarge",
                  "GaiaSimulation"}

\* load_real_stars putting the system back as it was when a fetch fails
load_real_stars_restoring(s, data_type, gaia_stars, simulated_stars) ==
    LET s1 == [s EXCEPT !.central_body = Sun, !.distant_stars = <<>>]
    IN  CASE data_type = "Hardcoded" -> SysOk(add_stars_from_data(s1, HardcodedStars))
          [] data_type \in {"GaiaMeasurementSmall", "GaiaMeasurementLarge"} ->
                 IF ~gaia_stars.some THEN SysErr(s, "AstroUtilsError")
                 ELSE load_gaia_data(s1, gaia_stars)
          [] data_type = "GaiaSimulation" ->
                 IF ~simulated_stars.some THEN SysErr(s, "AstroUtilsError")
                 ELSE SysOk(add_stars_from_data(s1, simulated_stars.v))

load_real_stars(s, data_type, gaia_stars, simulated_stars) ==
    LET s1 == [s EXCEPT !.central_body = Sun, !.distant_stars = <<>>]
    IN  CASE data_type = "Hardcoded" -> SysOk(add_stars_from_data(s1, HardcodedStars))
          [] data_type \in {"GaiaMeasurementSmall", "GaiaMeasurementLarge"} ->
                 load_gaia_data(s1, gaia_stars)
          [] data_type = "GaiaSimulation" ->
                 IF ~simulated_stars.some THEN SysErr(s1, "AstroUtilsError")
                 ELSE SysOk(add_stars_from_data(s1, simulated_stars.v))

(***************************************************************************)
(* Dialogs.                                                                *)
(***************************************************************************)
NoDialog == [kind |-> None]

NewSystemDialog == [kind |-> "NewSystem"]
RandomizePlanetsDialog == [kind |-> "RandomizePlanets"]
LoadRealPlanetsDialog == [kind |-> "LoadRealPlanets"]
LoadRealStarsDialog == [kind |-> "LoadRealStars", data_type |-> "Hardcoded"]
ErrorDialog(e) == [kind |-> "Error", error |-> e]

RandomizeStarsDialog_new ==
    [kind |-> "RandomizeStars", keep_central_body |-> TRUE,
     generation_distance |-> "Decent"]

GenerationDistances == {"Decent", "Realistic", "VeryFar"}

\* the distance in light years
max_generation_distance(distance) ==
    CASE distance = "Decent" -> 1000
      [] distance = "Realistic" -> 5000
      [] distance = "VeryFar" -> 25000

\* format!("{:.2}", x)
format_2(x) ==
    CASE x = NaN -> "NaN"
      [] x = 0 -> "0.00"
      [] x = 1 -> "1.00"
      [] x = 2 -> "2.00"
      [] x = 3 -> "3.00"
      [] OTHER -> "more"

\* Of the strings that the dialogs display the model keeps the one of the
\* semi-major axis of a planet and the one of the luminosity of a star.
PlanetDialog(planet, planet_index, previous_planet, central_body) ==
    [kind |-> "Planet", planet |-> planet, planet_index |-> planet_index,
     previous_planet |-> previous_planet, central_body |-> central_body,
     semi_major_axis_string |-> format_2(planet.sma),
     error |-> NoneOpt]

PlanetDialog_edit(planet, planet_index, previous_planet, central_body) ==
    PlanetDialog(planet, Some(planet_index), previous_planet, central_body)

PlanetDialog_new(central_body) ==
    PlanetDialog([name |-> "", sma |-> 0], NoneOpt, NoneOpt, central_body)

StarDialog_new(time_since_epoch) ==
    [kind |-> "Star", star_dialog_type |-> "New", star |-> StarData("origin", 0, 0),
     star_index |-> NoneOpt, time_since_epoch |-> time_since_epoch,
     luminosity_string |-> format_2(0),
     error |-> NoneOpt]

StarDialog_edit(star, star_index, time_since_epoch) ==
    [kind |-> "Star", star_dialog_type |-> "Edit", star |-> star,
     star_index |-> star_index, time_since_epoch |-> time_since_epoch,
     luminosity_string |-> format_2(star.lum),
     error |-> NoneOpt]

\* Dialog::get_error of each dialog: whether the call panics and, if not, what
\* it returns
PlanetDialog_get_error(d) == [panic |-> FALSE, error |-> d.error]

\* the body is todo!()
StarDialog_get_error(d) == [panic |-> TRUE, error |-> NoneOpt]

RandomizeStarsDialog_get_error(d) == [panic |-> FALSE, error |-> NoneOpt]

\* the dialogs that keep no error: new system, random planets, real planets,
\* real stars, and the error dialog itself
OtherDialog_get_error(d) == [panic |-> FALSE, error |-> NoneOpt]

\* dialog.get_error() on the Box<dyn Dialog>
get_error(d) ==
    CASE d.kind = "Planet" -> PlanetDialog_get_error(d)
      [] d.kind = "Star" -> StarDialog_get_error(d)
      [] d.kind = "RandomizeStars" -> RandomizeStarsDialog_get_error(d)
      [] OTHER -> OtherDialog_get_error(d)

\* messages without arguments
Msg(type) == [type |-> type]

is_central_body(d) == d.star_dialog_type = "Edit" /\ ~d.star_index.some

\* Dialog::on_submit of each dialog
PlanetDialog_on_submit(d) ==
    IF d.planet_index.some
    THEN [type |-> "PlanetEdited", index |-> d.planet_index.v, planet |-> d.planet]
    ELSE [type |-> "NewPlanet", planet |-> d.planet]

\* on_submit that sends the star as the dialog holds it
StarDialog_on_submit_as_edited(d) ==
    IF d.star_dialog_type = "Edit"
    THEN [type |-> "StarEdited", index |-> d.star_index, star |-> d.star]
    ELSE [type |-> "NewStar", star |-> d.star]

StarDialog_on_submit(d) ==
    IF d.star_dialog_type = "Edit"
    THEN [type |-> "StarEdited", index |-> d.star_index,
          star |-> IF is_central_body(d) THEN set_distance_at_epoch(d.star, 0)
                   ELSE d.star]
    ELSE [type |-> "NewStar", star |-> d.star]

RandomizeStarsDialog_on_submit(d) ==
    [type |-> "RandomizeStars", keep_central_body |-> d.keep_central_body,
     max_distance |-> max_generation_distance(d.generation_distance)]

\* the other dialogs submit the message they are named after; the error dialog
\* closes
OtherDialog_on_submit(d) ==
    CASE d.kind = "NewSystem" -> Msg("NewSystem")
      [] d.kind = "RandomizePlanets" -> Msg("RandomizePlanets")
      [] d.kind = "LoadRealPlanets" -> Msg("LoadRealPlanets")
      [] d.kind = "LoadRealStars" -> [type |-> "LoadStars", data_type |-> d.data_type]
      [] d.kind = "Error" -> Msg("DialogClosed")

\* dialog.on_submit() on the Box<dyn Dialog>
on_submit(d) ==
    CASE d.kind = "Planet" -> PlanetDialog_on_submit(d)
      [] d.kind = "Star" -> StarDialog_on_submit(d)
      [] d.kind = "RandomizeStars" -> RandomizeStarsDialog_on_submit(d)
      [] OTHER -> OtherDialog_on_submit(d)

\* f64::from_str on the text of an input field
ParsableTexts == {"1", "2", "NaN"}
InputTexts == ParsableTexts \cup {"abc"}

parse_f64(text) ==
    CASE text = "0" -> Some(0)
      [] text = "1" -> Some(1)
      [] text = "2" -> Some(2)
      [] text = "NaN" -> Some(NaN)
      [] OTHER -> NoneOpt

\* update that takes over the text of the semi-major axis as the star dialog
\* does, and NaN for a text that is no number
PlanetDialog_update_unparsed(d, event, random_planet, fill_ok) ==
    CASE event.type = "NameChanged" -> [d EXCEPT !.planet.name = event.name]
      [] event.type = "SemiMajorAxisChanged" ->
             IF parse_f64(event.text).some
             THEN [d EXCEPT !.planet.sma = parse_f64(event.text).v,
                            !.semi_major_axis_string = event.text]
             ELSE [d EXCEPT !.planet.sma = NaN, !.semi_major_axis_string = event.text]
      [] event.type = "Randomize" ->
             LET d1 == [d EXCEPT !.planet = [random_planet EXCEPT !.name = d.planet.name]]
             IN  IF fill_ok
                 THEN [d1 EXCEPT !.semi_major_axis_string = format_2(random_planet.sma)]
                 ELSE [d1 EXCEPT !.error = Some("Generic")]

\* Dialog::update; random_planet is what generate_random_planet returns and
\* fill_ok whether fill_string_members succeeds
PlanetDialog_update(d, event, random_planet, fill_ok) ==
    CASE event.type = "NameChanged" -> [d EXCEPT !.planet.name = event.name]
      [] event.type = "SemiMajorAxisChanged" ->
             IF parse_f64(event.text).some
             THEN [d EXCEPT !.planet.sma = parse_f64(event.text).v,
                            !.semi_major_axis_string = event.text]
             ELSE d
      [] event.type = "Randomize" ->
             \* fill_string_members fails, if it does, at the color, before it
             \* gets to the semi-major axis
             LET d1 == [d EXCEPT !.planet = [random_planet EXCEPT !.name = d.planet.name]]
             IN  IF fill_ok
                 THEN [d1 EXCEPT !.semi_major_axis_string = format_2(random_planet.sma)]
                 ELSE [d1 EXCEPT !.error = Some("Generic")]

\* the direction a longitude or latitude stands for
direction_of(angle) ==
    CASE angle = 1 -> "east"
      [] angle = 2 -> "south"
      [] OTHER -> "nowhere"

\* Dialog::update of the star dialog; random_star is what generate_random_star
\* returns.  A text that does not parse changes the text field only, which the
\* model does not keep.
StarDialog_update(d, event, random_star) ==
    CASE event.type = "LuminosityChanged" ->
             IF parse_f64(event.text).some
             THEN [d EXCEPT !.star.lum = parse_f64(event.text).v,
                            !.luminosity_string = event.text]
             ELSE [d EXCEPT !.luminosity_string = event.text]
      [] event.type = "DistanceChanged" ->
             IF parse_f64(event.text).some
             THEN [d EXCEPT !.star = set_distance_at_epoch(@, parse_f64(event.text).v)]
             ELSE d
      [] event.type \in {"LongitudeChanged", "LatitudeChanged"} ->
             \* the new direction, at the distance the star has
             IF parse_f64(event.text).some /\ d.star.pos # "origin"
             THEN [d EXCEPT !.star.pos = direction_of(parse_f64(event.text).v)]
             ELSE d
      [] event.type = "Randomize" ->
             IF random_star.some
             THEN [d EXCEPT !.star = random_star.v,
                            !.luminosity_string = format_2(random_star.v.lum)]
             ELSE [d EXCEPT !.error = Some("AstroUtilsError")]

RandomizeStarsDialog_update(d, event) ==
    CASE event.type = "KeepCentralBodySelected" ->
             [d EXCEPT !.keep_central_body = event.keep_central_body]
      [] event.type = "MaxGenerationDistanceChanged" ->
             [d EXCEPT !.generation_distance = event.generation_distance]

Dialog_update(d, update, random_planet, fill_ok, random_star) ==
    CASE d.kind = "Planet" /\ update.kind = "PlanetUpdated" ->
             PlanetDialog_update(d, update.event, random_planet, fill_ok)
      [] d.kind = "Star" /\ update.kind = "StarUpdated" ->
             StarDialog_update(d, update.event, random_star)
      [] d.kind = "RandomizeStars" /\ update.kind = "RandmoizeStarsUpdated" ->
             RandomizeStarsDialog_update(d, update.event)
      [] OTHER -> d

(***************************************************************************)
(* The state of the surface view and of the top view.  Angles are whole    *)
(* degrees, solid angles hundredths of a steradian, the top view's length  *)
(* per pixel hundredths of an astronomical unit.  A canvas cache is empty  *)
(* or holds the geometry of one drawing, which is kept here as the values  *)
(* it was drawn from.  The background caches are never cleared and are     *)
(* left out.                                                               *)
(***************************************************************************)
EmptyCache == [filled |-> FALSE]

FilledCache(drawn_from) == [filled |-> TRUE, drawn_from |-> drawn_from]

\* astro_utils::units::angle::normalized_angle: the angle within half a turn
\* of zero
normalized_angle(angle) ==
    LET turns == IF angle >= 0 THEN angle \div 360 ELSE -((-angle) \div 360)
        rest == angle - 360 * turns
    IN  IF rest > 180 THEN rest - 360
        ELSE IF rest < -180 THEN rest + 360
        ELSE rest

SurfaceViewState_new ==
    [bodies_cache |-> EmptyCache, surface_longitude |-> 0, surface_latitude |-> 0,
     view_longitude |-> 0, view_latitude |-> 90, viewport_opening_angle |-> 100]

\* an update that stores what it is given
SurfaceViewState_update_unclamped(state, message) ==
    CASE message.type = "SurfaceLongitude" ->
             [state EXCEPT !.surface_longitude = normalized_angle(message.value)]
      [] message.type = "SurfaceLatitude" ->
             [state EXCEPT !.surface_latitude = message.value]
      [] message.type = "ViewLongitude" ->
             [state EXCEPT !.view_longitude = normalized_angle(message.value)]
      [] message.type = "ViewLatitude" ->
             [state EXCEPT !.view_latitude = message.value]
      [] message.type = "ViewportOpeningAngle" ->
             [state EXCEPT !.viewport_opening_angle = message.value]

SurfaceViewState_update(state, message) ==
    CASE message.type = "SurfaceLongitude" ->
             [state EXCEPT !.surface_longitude = normalized_angle(message.value)]
      [] message.type = "SurfaceLatitude" ->
             [state EXCEPT !.surface_latitude =
                  IF message.value < -90 THEN -90
                  ELSE IF message.value > 90 THEN 90 ELSE message.value]
      [] message.type = "ViewLongitude" ->
             [state EXCEPT !.view_longitude = normalized_angle(message.value)]
      [] message.type = "ViewLatitude" ->
             [state EXCEPT !.view_latitude =
                  IF message.value < 10 THEN 10
                  ELSE IF message.value > 90 THEN 90 ELSE message.value]
      [] message.type = "ViewportOpeningAngle" ->
             [state EXCEPT !.viewport_opening_angle =
                  IF message.value < 10 THEN 10
                  ELSE IF message.value > 628 THEN 628 ELSE message.value]

SurfaceViewState_redraw(state) == [state EXCEPT !.bodies_cache = EmptyCache]

TopViewState_new ==
    [bodies_cache |-> EmptyCache, scale_cache |-> EmptyCache, length_per_pixel |-> 1,
     view_longitude |-> 0, view_latitude |-> 90]

TopViewState_update(state, message) ==
    CASE message.type = "LengthScale" -> [state EXCEPT !.length_per_pixel = message.value]
      [] message.type = "ViewLongitude" ->
             [state EXCEPT !.view_longitude = normalized_angle(message.value)]
      [] message.type = "ViewLatitude" ->
             [state EXCEPT !.view_latitude =
                  IF message.value < -90 THEN -90
                  ELSE IF message.value > 90 THEN 90 ELSE message.value]

TopViewState_redraw(state) ==
    [state EXCEPT !.bodies_cache = EmptyCache, !.scale_cache = EmptyCache]

\* Gui::redraw
redraw(g) ==
    CASE g.mode = "Surface" ->
             [g EXCEPT !.surface_view_state = SurfaceViewState_redraw(@)]
      [] g.mode = "Top" -> [g EXCEPT !.top_view_state = TopViewState_redraw(@)]
      [] OTHER -> g

\* Gui::get_selected_planet_data: the first planet with the selected name
RECURSIVE find_planet(_, _)
find_planet(planets, name) ==
    IF planets = <<>> THEN NoneOpt
    ELSE IF Head(planets).name = name THEN Some(Head(planets))
    ELSE find_planet(Tail(planets), name)

get_selected_planet_data(g) ==
    IF g.celestial_system.some
    THEN find_planet(get_planets_data(g.celestial_system.v), g.selected_planet_name)
    ELSE NoneOpt

\* what the closures given to the caches of a canvas draw from
top_view_bodies(g) ==
    [selected_planet |-> get_selected_planet_data(g),
     celestial_system |-> g.celestial_system, display_names |-> g.display_names,
     length_per_pixel |-> g.top_view_state.length_per_pixel,
     view_longitude |-> g.top_view_state.view_longitude,
     view_latitude |-> g.top_view_state.view_latitude]

top_view_scale(g) == [length_per_pixel |-> g.top_view_state.length_per_pixel]

surface_view_bodies(g) ==
    [selected_planet |-> get_selected_planet_data(g),
     celestial_system |-> g.celestial_system, display_names |-> g.display_names,
     display_constellations |-> g.display_constellations,
     surface_longitude |-> g.surface_view_state.surface_longitude,
     surface_latitude |-> g.surface_view_state.surface_latitude,
     view_longitude |-> g.surface_view_state.view_longitude,
     view_latitude |-> g.surface_view_state.view_latitude,
     viewport_opening_angle |-> g.surface_view_state.viewport_opening_angle]

\* canvas::Cache::draw: the closure runs only when the cache is empty
Cache_draw(cache, drawn_from) ==
    IF cache.filled THEN cache ELSE FilledCache(drawn_from)

\* TopViewState::canvas
TopViewState_canvas(g) ==
    [g.top_view_state EXCEPT !.bodies_cache = Cache_draw(@, top_view_bodies(g)),
                             !.scale_cache = Cache_draw(@, top_view_scale(g))]

\* SurfaceViewState::canvas
SurfaceViewState_canvas(g) ==
    [g.surface_view_state EXCEPT
         !.bodies_cache = Cache_draw(@, surface_view_bodies(g))]

\* canvas::Program::draw of Gui
draw(g) ==
    CASE g.mode = "Surface" -> [g EXCEPT !.surface_view_state = SurfaceViewState_canvas(g)]
      [] g.mode = "Top" -> [g EXCEPT !.top_view_state = TopViewState_canvas(g)]
      [] OTHER -> g

(***************************************************************************)
(* The projection of the surface view.  A direction is a vector of three   *)
(* integers of length UnitLength, so that the directions of the model -    *)
(* along the axes, and tilted from one axis towards another by the angle   *)
(* of a 3-4-5 triangle - and every product of two of them are exact.       *)
(***************************************************************************)
UnitLength == 5

dot(a, b) == a[1] * b[1] + a[2] * b[2] + a[3] * b[3]

cross(a, b) ==
    << a[2] * b[3] - a[3] * b[2], a[3] * b[1] - a[1] * b[3], a[1] * b[2] - a[2] * b[1] >>

scaled(v, num, den) == << (v[1] * num) \div den, (v[2] * num) \div den, (v[3] * num) \div den >>

norm(v) == CHOOSE r \in 0 .. dot(v, v) : r * r = dot(v, v)

\* astro_coords direction_relative_to_normal: the direction in the frame whose
\* z axis is the normal and whose x axis is the part of rotation_reference
\* that is orthogonal to the normal; the frame is right-handed
direction_relative_to_normal(direction, normal, rotation_reference) ==
    LET rejection == [i \in 1 .. 3 |->
                         UnitLength * UnitLength * rotation_reference[i]
                             - dot(rotation_reference, normal) * normal[i]]
        x_axis == scaled(rejection, UnitLength, norm(rejection))
        y_axis == scaled(cross(normal, x_axis), 1, UnitLength)
    IN  [x |-> dot(direction, x_axis) \div UnitLength,
         y |-> dot(direction, y_axis) \div UnitLength,
         z |-> dot(direction, normal) \div UnitLength]

Viewport(center_direction, top_direction, px_per_distance) ==
    [center_direction |-> center_direction, top_direction |-> top_direction,
     px_per_distance |-> px_per_distance]

\* offset with the two canvas axes mixed up
offset_along_the_axes(direction_of_body, viewport) ==
    LET direction == direction_relative_to_normal(
                         direction_of_body, viewport.center_direction,
                         viewport.top_direction)
    IN  IF direction.z > 0
        THEN Some(<< direction.x * viewport.px_per_distance,
                     direction.y * viewport.px_per_distance >>)
        ELSE NoneOpt

\* offset of canvas_appearance.rs; the offset is in units of 1 / UnitLength
offset(direction_of_body, viewport) ==
    LET direction == direction_relative_to_normal(
                         direction_of_body, viewport.center_direction,
                         viewport.top_direction)
    IN  IF direction.z > 0
        THEN Some(<< direction.y * viewport.px_per_distance,
                     -direction.x * viewport.px_per_distance >>)
        ELSE NoneOpt

(***************************************************************************)
(* The radius and the opacity of a body on the canvas of the surface view. *)
(* The floating-point numbers of this computation are never negative; one  *)
(* is kept as zero, infinity, NaN, or a positive number given by its       *)
(* decimal logarithm in thousandths, so that powf multiplies the logarithm *)
(* by the exponent and a product adds logarithms.                          *)
(***************************************************************************)
Zero == [kind |-> "zero"]
Infinity == [kind |-> "inf"]
NotANumber == [kind |-> "nan"]
Positive(log) == [kind |-> "pos", log |-> log]
One == Positive(0)

\* a < b and a <= b; false when one of them is NaN
less(a, b) ==
    /\ a.kind # "nan" /\ b.kind # "nan"
    /\ \/ a.kind = "zero" /\ b.kind # "zero"
       \/ a.kind = "pos" /\ b.kind = "inf"
       \/ a.kind = "pos" /\ b.kind = "pos" /\ a.log < b.log

less_or_equal(a, b) == a.kind # "nan" /\ b.kind # "nan" /\ ~less(b, a)

\* the limits of f32, as logarithms: below the least subnormal number a
\* value becomes 0, above the greatest number infinity
F32_MIN_LOG == -44850
F32_MAX_LOG == 38531

as_f32(a) ==
    IF a.kind # "pos" THEN a
    ELSE IF a.log < F32_MIN_LOG THEN Zero
    ELSE IF a.log > F32_MAX_LOG THEN Infinity
    ELSE a

\* a / b for a positive b
quotient(a, b) == IF a.kind = "pos" THEN Positive(a.log - b.log) ELSE a

\* a * b for a positive b
product(a, b) == IF a.kind = "pos" THEN as_f32(Positive(a.log + b.log)) ELSE a

\* f32::powf for an exponent between 0 and 1, given in thousandths
powf(a, exponent) ==
    IF a.kind = "pos" THEN as_f32(Positive((a.log * exponent) \div 1000)) ELSE a

\* the constants of CanvasAppearance: 1.5, 1e5, 0.23, 0.75 and 8e-8 lux
MIN_RADIUS == Positive(176)
MAX_RADIUS == Positive(5000)
RADIUS_EXPONENT == 230
ALPHA_EXPONENT == 750
illuminance_at_min_radius == Positive(-7097)

\* color_and_radius without the upper limit of the radius
color_and_radius_without_limit(illuminance) ==
    LET ratio == as_f32(quotient(illuminance, illuminance_at_min_radius))
    IN  IF less(ratio, One)
        THEN [radius |-> MIN_RADIUS, alpha |-> powf(ratio, ALPHA_EXPONENT)]
        ELSE [radius |-> product(powf(ratio, RADIUS_EXPONENT), MIN_RADIUS),
              alpha |-> One]

\* CanvasAppearance::color_and_radius: the radius and the alpha of the color
\* (its hue, taken from the body's color, is left out)
color_and_radius(illuminance) ==
    LET ratio == as_f32(quotient(illuminance, illuminance_at_min_radius))
    IN  IF less(ratio, One)
        THEN [radius |-> MIN_RADIUS, alpha |-> powf(ratio, ALPHA_EXPONENT)]
        ELSE LET radius == product(powf(ratio, RADIUS_EXPONENT), MIN_RADIUS)
             IN  IF less(MAX_RADIUS, radius)
                 THEN [radius |-> MAX_RADIUS, alpha |-> One]
                 ELSE [radius |-> radius, alpha |-> One]

(***************************************************************************)
(* Gui::handle_message.  g is the Gui, env what the message's handling     *)
(* reads from outside the program:                                         *)
(*   chosen          the path the file chooser returns, NoneOpt if closed  *)
(*   read            the system read_from_file returns, NoneOpt on error   *)
(*   write_ok        whether write_to_file succeeds                        *)
(*   random_central, random_stars, gaia_stars, simulated_stars,            *)
(*   random_planet, random_star                                            *)
(*                   what the generators and catalog queries return        *)
(*   derived_ok, fill_ok   whether DerivedPlanetData::new and              *)
(*                   fill_string_members succeed                           *)
(*   overflow_checks whether the build panics on integer overflow          *)
(* The result carries the Gui as the handler left it, the outcome (Ok, Err *)
(* with the error, or Panic), what was done to files (io) and, for         *)
(* DialogSubmit, the outcome of the nested message.                        *)
(***************************************************************************)
NoIo == [prompts |-> 0, chosen |-> NoneOpt, read |-> NoneOpt, write |-> NoneOpt,
         written |-> FALSE]

Ok(g, io) == [g |-> g, res |-> "Ok", error |-> None, io |-> io, nested |-> NoneOpt]
Err(g, e, io) == [g |-> g, res |-> "Err", error |-> e, io |-> io, nested |-> NoneOpt]
Panic(g, io) == [g |-> g, res |-> "Panic", error |-> None, io |-> io, nested |-> NoneOpt]

\* get_system / get_system_const: whether they return Ok
get_system(g) == g.celestial_system.some

\* get_system()?.f(..) for an f that cannot fail, followed by dialog = None
with_system(g, new_sys) ==
    Ok([g EXCEPT !.celestial_system = Some(new_sys), !.dialog = NoDialog], NoIo)

\* get_system()?.f(..)? for an f that returns Result<(), ElenathError>
with_system_result(g, r) ==
    IF r.res = "Ok"
    THEN Ok([g EXCEPT !.celestial_system = Some(r.sys), !.dialog = NoDialog], NoIo)
    ELSE Err([g EXCEPT !.celestial_system = Some(r.sys)], r.error, NoIo)

write_to_file(g, io, env) ==
    IF ~get_system(g) THEN Err(g, "NoCelestialSystem", io)
    ELSE IF env.write_ok
         THEN Ok(g, [io EXCEPT !.write = g.opened_file, !.written = TRUE])
         ELSE Err(g, "Io", [io EXCEPT !.write = g.opened_file])

save_to_new_file(g, env) ==
    LET g1 == [g EXCEPT !.opened_file = env.chosen]
        io == [NoIo EXCEPT !.prompts = 1, !.chosen = env.chosen]
    IN  IF g1.opened_file.some THEN write_to_file(g1, io, env) ELSE Ok(g1, io)

\* SaveToFile that asks for a path every time
save_to_file_always_prompting(g, env) == save_to_new_file(g, env)

save_to_file(g, env) ==
    LET prompt == ~g.opened_file.some
        g1 == IF prompt THEN [g EXCEPT !.opened_file = env.chosen] ELSE g
        io == IF prompt THEN [NoIo EXCEPT !.prompts = 1, !.chosen = env.chosen] ELSE NoIo
    IN  IF g1.opened_file.some THEN write_to_file(g1, io, env) ELSE Ok(g1, io)

open_file(g, env) ==
    LET g1 == [g EXCEPT !.opened_file = env.chosen]
        io == [NoIo EXCEPT !.prompts = 1, !.chosen = env.chosen]
    IN  IF g1.opened_file.some
        THEN IF env.read.some
             THEN Ok([g1 EXCEPT !.celestial_system = env.read],
                     [io EXCEPT !.read = g1.opened_file])
             ELSE Err(g1, "Io", [io EXCEPT !.read = g1.opened_file])
        ELSE Ok(g1, io)

DialogTypes ==
    {"NewSystem", "NewPlanet", "EditPlanet", "NewStar", "EditStar",
     "RandomizePlanets", "LoadRealPlanets", "RandomizeStars", "LoadGaiaData"}

opened(g, d) == Ok([g EXCEPT !.dialog = d], NoIo)

open_dialog(g, dialog_type, env) ==
    LET s == g.celestial_system.v
    IN
    CASE dialog_type.type = "NewSystem" -> opened(g, NewSystemDialog)
      [] dialog_type.type = "NewPlanet" ->
             IF ~get_system(g) THEN Err(g, "NoCelestialSystem", NoIo)
             ELSE IF ~env.fill_ok THEN Err(g, "Generic", NoIo)
             ELSE opened(g, PlanetDialog_new(get_central_body_data(s)))
      [] dialog_type.type = "EditPlanet" ->
             IF ~get_system(g) THEN Err(g, "NoCelestialSystem", NoIo)
             ELSE LET index == dialog_type.index
                      planet == get_planet_data(s, index)
                      \* index - 1 on usize: a panic or a wrap-around to usize::MAX
                      previous_planet ==
                          IF index = 0 THEN NoneOpt ELSE get_planet_data(s, index - 1)
                  IN  IF ~planet.some THEN Err(g, "BodyNotFound", NoIo)
                      ELSE IF index = 0 /\ env.overflow_checks THEN Panic(g, NoIo)
                      ELSE IF previous_planet.some /\ ~env.derived_ok
                           THEN Err(g, "AstroUtilsError", NoIo)
                      ELSE IF ~env.fill_ok THEN Err(g, "Generic", NoIo)
                      ELSE opened(g, PlanetDialog_edit(planet.v, index, previous_planet,
                                                       get_central_body_data(s)))
      [] dialog_type.type = "NewStar" ->
             IF ~get_system(g) THEN Err(g, "NoCelestialSystem", NoIo)
             ELSE opened(g, StarDialog_new(s.time_since_epoch))
      [] dialog_type.type = "EditStar" ->
             IF ~get_system(g) THEN Err(g, "NoCelestialSystem", NoIo)
             ELSE LET star == get_star_data(s, dialog_type.star_index)
                  IN  IF ~star.some THEN Err(g, "BodyNotFound", NoIo)
                      ELSE opened(g, StarDialog_edit(star.v, dialog_type.star_index,
                                                     s.time_since_epoch))
      [] dialog_type.type = "RandomizePlanets" -> opened(g, RandomizePlanetsDialog)
      [] dialog_type.type = "LoadRealPlanets" -> opened(g, LoadRealPlanetsDialog)
      [] dialog_type.type = "RandomizeStars" -> opened(g, RandomizeStarsDialog_new)
      [] dialog_type.type = "LoadGaiaData" -> opened(g, LoadRealStarsDialog)

\* NewSystem that forgets the file as well
new_system_without_file(g) ==
    Ok([g EXCEPT !.celestial_system = Some(empty), !.dialog = NoDialog,
                 !.opened_file = NoneOpt], NoIo)

\* the arm for NewSystem
new_system(g) ==
    Ok([g EXCEPT !.celestial_system = Some(empty), !.dialog = NoDialog], NoIo)

\* the arms of the match in handle_message, DialogSubmit excepted
dispatch(g, message, env) ==
    LET s == g.celestial_system.v
        t == message.type
    IN
    CASE t = "NewPlanet" ->
             IF ~get_system(g) THEN Err(g, "NoCelestialSystem", NoIo)
             ELSE with_system(g, add_planet_data(s, message.planet))
      [] t = "PlanetEdited" ->
             IF ~get_system(g) THEN Err(g, "NoCelestialSystem", NoIo)
             ELSE IF message.index >= Len(s.planets) THEN Panic(g, NoIo)
             ELSE with_system(g, overwrite_planet_data(s, message.index, message.planet))
      [] t = "NewStar" ->
             IF ~get_system(g) THEN Err(g, "NoCelestialSystem", NoIo)
             ELSE with_system(g, add_stars_from_data(s, <<message.star>>))
      [] t = "StarEdited" ->
             IF ~get_system(g) THEN Err(g, "NoCelestialSystem", NoIo)
             ELSE IF message.index.some /\ message.index.v >= Len(s.distant_stars)
                  THEN Panic(g, NoIo)
             ELSE with_system(g, overwrite_star_data(s, message.index, message.star))
      [] t = "NewSystem" -> new_system(g)
      [] t = "SaveToFile" -> save_to_file(g, env)
      [] t = "SaveToNewFile" -> save_to_new_file(g, env)
      [] t = "OpenFile" -> open_file(g, env)
      [] t = "ModeSelected" -> Ok([g EXCEPT !.mode = message.mode], NoIo)
      [] t = "UpdateTime" ->
             IF ~get_system(g) THEN Err(g, "NoCelestialSystem", NoIo)
             ELSE Ok([g EXCEPT !.celestial_system =
                          Some(set_time_since_epoch(s, message.time))], NoIo)
      [] t = "UpdateTimeStep" -> Ok([g EXCEPT !.time_step = message.time_step], NoIo)
      [] t = "PlanetSelected" ->
             Ok([g EXCEPT !.selected_planet_name = message.name], NoIo)
      [] t = "RandomizePlanets" ->
             IF ~get_system(g) THEN Err(g, "NoCelestialSystem", NoIo)
             ELSE Panic(g, NoIo)   \* randomize_planets is todo!()
      [] t = "LoadRealPlanets" ->
             IF ~get_system(g) THEN Err(g, "NoCelestialSystem", NoIo)
             ELSE with_system(g, load_real_planets(s))
      [] t = "RandomizeStars" ->
             IF ~get_system(g) THEN Err(g, "NoCelestialSystem", NoIo)
             ELSE with_system_result(g, randomize_stars(s, message.keep_central_body,
                                                        env.random_central, env.random_stars))
      [] t = "LoadStars" ->
             IF ~get_system(g) THEN Err(g, "NoCelestialSystem", NoIo)
             ELSE with_system_result(g, load_real_stars(s, message.data_type,
                                                        env.gaia_stars, env.simulated_stars))
      [] t = "OpenDialog" -> open_dialog(g, message.dialog_type, env)
      [] t = "DialogClosed" -> Ok([g EXCEPT !.dialog = NoDialog], NoIo)
      [] t = "ErrorEncountered" -> Err(g, message.error, NoIo)
      [] t = "DialogUpdate" ->
             IF g.dialog.kind # None
             THEN Ok([g EXCEPT !.dialog = Dialog_update(@, message.update,
                                                        env.random_planet, env.fill_ok,
                                                        env.random_star)],
                     NoIo)
             ELSE Ok(g, NoIo)
      [] t = "UpdateSurfaceView" ->
             Ok([g EXCEPT !.surface_view_state =
                     SurfaceViewState_update(@, message.update)], NoIo)
      [] t = "UpdateTopView" ->
             Ok([g EXCEPT !.top_view_state = TopViewState_update(@, message.update)],
                NoIo)
      [] t = "SetDisplayNames" ->
             Ok([g EXCEPT !.display_names = message.display_names], NoIo)
      [] t = "SetDisplayConstellations" ->
             Ok([g EXCEPT !.display_constellations = message.display_constellations],
                NoIo)

\* the match entered whatever the open dialog reports
pre_check_skipped(g) == [panic |-> FALSE, error |-> NoneOpt]

\* the check of the open dialog's error that precedes the match
pre_check(g) ==
    IF g.dialog.kind = None THEN [panic |-> FALSE, error |-> NoneOpt]
    ELSE get_error(g.dialog)

\* DialogSubmit: the Result of the nested call is dropped; a panic unwinds
submitted(submit_type, n) ==
    LET nested == Some([type |-> submit_type, res |-> n.res, error |-> n.error])
    IN  IF n.res = "Panic" THEN [n EXCEPT !.nested = nested]
        ELSE [Ok(n.g, n.io) EXCEPT !.nested = nested]

\* the end of handle_message: self.redraw() and Ok(()), which a handling that
\* has returned early or has panicked does not get to
redrawn(r) == IF r.res = "Ok" THEN [r EXCEPT !.g = redraw(@)] ELSE r

RECURSIVE handle_message(_, _, _)
handle_message(g, message, env) ==
    LET pre == pre_check(g)
    IN  IF pre.panic THEN Panic(g, NoIo)
        ELSE IF pre.error.some THEN Err(g, pre.error.v, NoIo)
        ELSE IF message.type = "DialogSubmit"
        THEN IF g.dialog.kind # None
             THEN redrawn(submitted(on_submit(g.dialog).type,
                                    handle_message(g, on_submit(g.dialog), env)))
             ELSE redrawn(Ok(g, NoIo))
        ELSE redrawn(dispatch(g, message, env))

\* Gui::update on the outcome r of handle_message, the error dropped
without_error_dialog(r) == r

\* Gui::update on the outcome r of handle_message: an error opens the error dialog
with_error_dialog(r) ==
    IF r.res = "Err" THEN [r EXCEPT !.g.dialog = ErrorDialog(r.error)] ELSE r

\* Gui::update
update(g, message, env) == with_error_dialog(handle_message(g, message, env))

(***************************************************************************)
(* The Gui of a freshly started program (Gui::default), and the same Gui   *)
(* holding an empty system.                                                *)
(***************************************************************************)
GuiDefault ==
    /\ opened_file = NoneOpt
    /\ mode = "Surface"
    /\ time_step = 1
    /\ selected_planet_name = ""
    /\ dialog = NoDialog
    /\ surface_view_state = SurfaceViewState_new
    /\ top_view_state = TopViewState_new
    /\ display_names = TRUE
    /\ display_constellations = FALSE
    /\ aborted = FALSE

gui_vars == <<opened_file, mode, time_step, selected_planet_name, dialog,
              surface_view_state, top_view_state, display_names,
              display_constellations, aborted>>

sys == celestial_system.v

\* sequences over S of length lo .. hi
SeqsOf(S, lo, hi) == UNION { [1 .. n -> S] : n \in lo .. hi }

(***************************************************************************)
(* SpecPlanets: the planet operations of CelestialSystem, called directly. *)
(***************************************************************************)
InitPlanets ==
    /\ celestial_system = Some(empty)
    /\ GuiDefault
    /\ last = [op |-> "empty"]

AddPlanetData ==
    \E planet \in PlanetInputs :
        /\ Len(sys.planets) < MaxPlanets
        /\ celestial_system' = Some(add_planet_data(sys, planet))
        /\ last' = [op |-> "add_planet_data"]
        /\ UNCHANGED gui_vars

OverwritePlanetData ==
    \E index \in 0 .. Len(sys.planets) - 1, planet \in PlanetInputs :
        /\ celestial_system' = Some(overwrite_planet_data(sys, index, planet))
        /\ last' = [op |-> "overwrite_planet_data", index |-> index, planet |-> planet]
        /\ UNCHANGED gui_vars

LoadRealPlanets ==
    /\ Len(RealPlanets) <= MaxPlanets
    /\ celestial_system' = Some(load_real_planets(sys))
    /\ last' = [op |-> "load_real_planets"]
    /\ UNCHANGED gui_vars

NextPlanets == AddPlanetData \/ OverwritePlanetData \/ LoadRealPlanets

SpecPlanets == InitPlanets /\ [][NextPlanets]_vars

(***************************************************************************)
(* SpecStars: the star operations of CelestialSystem, called directly.     *)
(***************************************************************************)
InitStars ==
    /\ celestial_system = Some(empty)
    /\ GuiDefault
    /\ last = [op |-> "empty"]

AddStarsFromData ==
    \E star_data \in SeqsOf(StarInputs, 1, 2) :
        /\ Len(sys.distant_stars) + Len(star_data) <= MaxStars
        /\ celestial_system' = Some(add_stars_from_data(sys, star_data))
        /\ last' = [op |-> "add_stars_from_data"]
        /\ UNCHANGED gui_vars

AddStarAppearancesWithoutDuplicates ==
    \E star_appearances \in SeqsOf(AppearanceInputs, 1, 2) :
        /\ Len(sys.distant_stars) + Len(star_appearances) <= MaxStars
        /\ celestial_system' =
               Some(add_star_appearances_without_duplicates(sys, star_appearances))
        /\ last' = [op |-> "add_star_appearances_without_duplicates"]
        /\ UNCHANGED gui_vars

OverwriteStarData ==
    \E index \in {NoneOpt} \cup { Some(i) : i \in 0 .. Len(sys.distant_stars) - 1 },
       star_data \in StarInputs :
        /\ celestial_system' = Some(overwrite_star_data(sys, index, star_data))
        /\ last' = [op |-> "overwrite_star_data", index |-> index, star_data |-> star_data]
        /\ UNCHANGED gui_vars

SetTimeSinceEpoch ==
    \E time_since_epoch \in Times :
        /\ celestial_system' = Some(set_time_since_epoch(sys, time_since_epoch))
        /\ last' = [op |-> "set_time_since_epoch"]
        /\ UNCHANGED gui_vars

NextStars ==
    \/ AddStarsFromData
    \/ AddStarAppearancesWithoutDuplicates
    \/ OverwriteStarData
    \/ SetTimeSinceEpoch

SpecStars == InitStars /\ [][NextStars]_vars

(***************************************************************************)
(* The order of the planets and of the stars (C1 - C4).                    *)
(***************************************************************************)
NoNaNPlanet(planets) == \A i \in DOMAIN planets : planets[i].sma # NaN

NoNaNStar(stars) == \A i \in DOMAIN stars : stars[i].appearance.illum # NaN

PlanetOperations == {"add_planet_data", "overwrite_planet_data", "load_real_planets"}

SortingStarOperations ==
    {"add_stars_from_data", "add_star_appearances_without_duplicates",
     "overwrite_star_data"}

\* C1, as stated: after add_planet_data, overwrite_planet_data and
\* load_real_planets, get_planets_data never returns a planet ahead of one whose
\* semi-major axis is strictly smaller.
C1_Original ==
    last.op \in PlanetOperations =>
        LET planets == get_planets_data(sys)
        IN  \A i, j \in DOMAIN planets :
                i < j => partial_cmp(planets[j].sma, planets[i].sma) # "Less"

\* C1, amended: after add_planet_data, overwrite_planet_data and
\* load_real_planets, and provided no planet's semi-major axis is NaN,
\* get_planets_data returns the planets in non-decreasing order of semi-major
\* axis.
C1_SortedPlanets ==
    (last.op \in PlanetOperations /\ NoNaNPlanet(get_planets_data(sys))) =>
        LET planets == get_planets_data(sys)
        IN  \A i \in 1 .. Len(planets) - 1 : f64_le(planets[i].sma, planets[i + 1].sma)

\* the first of three planets is overwritten with the largest axis and ends last
C1_Witness ==
    /\ last.op = "overwrite_planet_data"
    /\ last.index = 0
    /\ Len(get_planets_data(sys)) = 3
    /\ get_planets_data(sys)[1].sma = 1
    /\ get_planets_data(sys)[2].sma = 2
    /\ get_planets_data(sys)[3] = last.planet
    /\ last.planet.sma = 3

\* C2, as stated: after add_stars_from_data,
\* add_star_appearances_without_duplicates and overwrite_star_data, no distant
\* star comes ahead of one whose illuminance is strictly greater.
C2_Original ==
    last.op \in SortingStarOperations =>
        LET stars == sys.distant_stars
        IN  \A i, j \in DOMAIN stars :
                i < j => partial_cmp(stars[j].appearance.illum,
                                     stars[i].appearance.illum) # "Greater"

\* C2, amended: after add_stars_from_data,
\* add_star_appearances_without_duplicates and overwrite_star_data, and provided
\* no star's illuminance is NaN, the distant stars are in non-increasing order
\* of illuminance.
C2_SortedStars ==
    (last.op \in SortingStarOperations /\ NoNaNStar(sys.distant_stars)) =>
        LET stars == sys.distant_stars
        IN  \A i \in 1 .. Len(stars) - 1 :
                f64_ge(stars[i].appearance.illum, stars[i + 1].appearance.illum)

\* a catalog star brighter than the two known stars is added and comes first
C2_Witness ==
    /\ last.op = "add_star_appearances_without_duplicates"
    /\ Len(sys.distant_stars) = 3
    /\ sys.distant_stars[1].data = NoneOpt
    /\ sys.distant_stars[1].appearance.illum = 3
    /\ sys.distant_stars[2].data.some
    /\ sys.distant_stars[2].appearance.illum = 2
    /\ sys.distant_stars[3].appearance.illum = 1

\* C3: the distant star at position i (from 0) has index Some(i); get_stars
\* returns the central body first, with index None, and then the distant
\* stars, the one at position k >= 1 with index Some(k - 1).
C3_Indices ==
    /\ \A i \in DOMAIN sys.distant_stars : sys.distant_stars[i].index = Some(i - 1)
    /\ Len(get_stars(sys)) = Len(sys.distant_stars) + 1
    /\ get_stars(sys)[1].index = NoneOpt
    /\ get_stars(sys)[1].data = Some(sys.central_body)
    /\ \A k \in 2 .. Len(get_stars(sys)) :
           /\ get_stars(sys)[k].index = Some(k - 2)
           /\ get_stars(sys)[k] = sys.distant_stars[k - 1]

\* the brightest of three stars is overwritten with a faint one, moves from the
\* first place to the last and is renumbered
C3_Witness ==
    /\ last.op = "overwrite_star_data"
    /\ last.index = Some(0)
    /\ last.star_data.pos = "south"
    /\ Len(sys.distant_stars) = 3
    /\ sys.distant_stars[1].appearance.pos = "north"
    /\ sys.distant_stars[2].appearance.pos = "north"
    /\ sys.distant_stars[3].data = Some(last.star_data)
    /\ sys.distant_stars[3].index = Some(2)
    /\ get_stars(sys)[4].index = Some(2)

\* C4, as stated: after set_time_since_epoch the distant stars (none of them
\* with a NaN illuminance) are in non-increasing order of illuminance.
C4_Original ==
    (last.op = "set_time_since_epoch" /\ NoNaNStar(sys.distant_stars)) =>
        LET stars == sys.distant_stars
        IN  \A i \in 1 .. Len(stars) - 1 :
                f64_ge(stars[i].appearance.illum, stars[i + 1].appearance.illum)

(***************************************************************************)
(* The Gui handling messages, one call of Gui::update per step.  The       *)
(* specifications below differ in the messages they send and start from    *)
(* Gui::default.                                                           *)
(***************************************************************************)
Paths == {"a.json", "b.json"}
OptPaths == {NoneOpt} \cup { Some(path) : path \in Paths }

Modes == {"Surface", "Top", "Table"}
TimeSteps == {1, 2}
Errors == {"NoCelestialSystem", "BodyNotFound", "Io", "AstroUtilsError", "Generic"}

GuiPlanetInputs == { [name |-> "", sma |-> 1], [name |-> "Ares", sma |-> 2] }
GuiStarInputs == { StarData("north", 2, 0), StarData("south", 1, 2) }
BodyIndices == 0 .. GuiMaxBodies
OptBodyIndices == {NoneOpt} \cup { Some(i) : i \in BodyIndices }

\* what a file may hold
FileContents ==
    { empty,
      CelestialSystem(Sun, << [name |-> "Ares", sma |-> 2] >>,
                      << Star_from_data(StarData("north", 2, 0), Some(0), 0) >>, 0) }
ReadResults == {NoneOpt} \cup { Some(f) : f \in FileContents }

RandomCentralBodies == { NoneOpt, Some(StarData("origin", 2, 0)) }
RandomStarLists == { NoneOpt, Some(<< StarData("east", 1, 0) >>) }
GaiaResults ==
    { NoneOpt, Some(<< StarAppearance("north", 2, 0) >>),
      Some(<< StarAppearance("east", 1, 0) >>) }
SimulationResults == { NoneOpt, Some(<< StarData("east", 1, 0) >>) }
RandomPlanets == { [name |-> "random", sma |-> 1] }

DefaultEnv ==
    [chosen |-> NoneOpt, read |-> NoneOpt, write_ok |-> TRUE,
     random_central |-> NoneOpt, random_stars |-> NoneOpt,
     gaia_stars |-> NoneOpt, simulated_stars |-> NoneOpt,
     random_planet |-> [name |-> "random", sma |-> 1], random_star |-> NoneOpt,
     derived_ok |-> TRUE, fill_ok |-> TRUE, overflow_checks |-> TRUE]

Gui ==
    [celestial_system |-> celestial_system, opened_file |-> opened_file,
     mode |-> mode, time_step |-> time_step,
     selected_planet_name |-> selected_planet_name, dialog |-> dialog,
     surface_view_state |-> surface_view_state, top_view_state |-> top_view_state,
     display_names |-> display_names,
     display_constellations |-> display_constellations]

WithinBounds(g) ==
    g.celestial_system.some =>
        /\ Len(g.celestial_system.v.planets) <= GuiMaxBodies
        /\ Len(g.celestial_system.v.distant_stars) <= GuiMaxBodies

\* what the history keeps of a message
Tag(message) ==
    IF message.type = "OpenDialog"
    THEN [type |-> "OpenDialog", dialog_type |-> message.dialog_type.type]
    ELSE IF message.type \in {"LoadStars", "UpdateSurfaceView", "UpdateTopView"}
    THEN message
    ELSE [type |-> message.type]

\* the index of the body that a message names, if it names one
Index(message) ==
    CASE message.type = "PlanetEdited" -> Some(message.index)
      [] message.type = "StarEdited" -> message.index
      [] message.type = "OpenDialog" /\ message.dialog_type.type = "EditPlanet" ->
             Some(message.dialog_type.index)
      [] message.type = "OpenDialog" /\ message.dialog_type.type = "EditStar" ->
             message.dialog_type.star_index
      [] OTHER -> NoneOpt

Init ==
    /\ celestial_system = NoneOpt
    /\ GuiDefault
    /\ last = [msg |-> Msg("default"), index |-> NoneOpt, res |-> "Ok",
               error |-> None, io |-> NoIo, nested |-> NoneOpt,
               random_stars |-> NoneOpt]

\* the Gui and the history after a call of Gui::update with outcome r
Updated(tag, index, random_stars, r) ==
    /\ WithinBounds(r.g)
    /\ last' = [msg |-> tag, index |-> index, res |-> r.res, error |-> r.error,
                io |-> r.io, nested |-> r.nested, random_stars |-> random_stars]
    /\ IF r.res = "Panic"
       THEN /\ aborted' = TRUE
            /\ UNCHANGED <<celestial_system, opened_file, mode, time_step,
                           selected_planet_name, dialog, surface_view_state,
                           top_view_state, display_names, display_constellations>>
       ELSE /\ aborted' = FALSE
            /\ celestial_system' = r.g.celestial_system
            /\ opened_file' = r.g.opened_file
            /\ mode' = r.g.mode
            /\ time_step' = r.g.time_step
            /\ selected_planet_name' = r.g.selected_planet_name
            /\ dialog' = r.g.dialog
            /\ surface_view_state' = r.g.surface_view_state
            /\ top_view_state' = r.g.top_view_state
            /\ display_names' = r.g.display_names
            /\ display_constellations' = r.g.display_constellations

\* one call of Gui::update
Update(message, env) ==
    Updated(Tag(message), Index(message), env.random_stars,
            update(Gui, message, env))

\* The actions: one per variant of GuiMessage.  A panic ends the program, so
\* every action requires that none has happened.
OnNewPlanet ==
    /\ ~aborted
    /\ \E planet \in GuiPlanetInputs :
           Update([type |-> "NewPlanet", planet |-> planet], DefaultEnv)

OnPlanetEdited ==
    /\ ~aborted
    /\ \E index \in BodyIndices, planet \in GuiPlanetInputs :
           Update([type |-> "PlanetEdited", index |-> index, planet |-> planet],
                  DefaultEnv)

OnNewStar ==
    /\ ~aborted
    /\ \E star \in GuiStarInputs :
           Update([type |-> "NewStar", star |-> star], DefaultEnv)

OnStarEdited ==
    /\ ~aborted
    /\ \E index \in OptBodyIndices, star \in GuiStarInputs :
           Update([type |-> "StarEdited", index |-> index, star |-> star], DefaultEnv)

OnNewSystem ==
    /\ ~aborted
    /\ Update(Msg("NewSystem"), DefaultEnv)

\* the file chooser and the write matter only where the handler gets to them
OnSaveToFile ==
    /\ ~aborted
    /\ \E chosen \in (IF opened_file.some THEN {NoneOpt} ELSE OptPaths),
          write_ok \in BOOLEAN :
           Update(Msg("SaveToFile"),
                  [DefaultEnv EXCEPT !.chosen = chosen, !.write_ok = write_ok])

OnSaveToNewFile ==
    /\ ~aborted
    /\ \E chosen \in OptPaths, write_ok \in BOOLEAN :
           Update(Msg("SaveToNewFile"),
                  [DefaultEnv EXCEPT !.chosen = chosen, !.write_ok = write_ok])

OnOpenFile ==
    /\ ~aborted
    /\ \E chosen \in OptPaths :
           \E read \in (IF chosen.some THEN ReadResults ELSE {NoneOpt}) :
               Update(Msg("OpenFile"),
                      [DefaultEnv EXCEPT !.chosen = chosen, !.read = read])

OnModeSelected ==
    /\ ~aborted
    /\ \E m \in Modes : Update([type |-> "ModeSelected", mode |-> m], DefaultEnv)

OnUpdateTime ==
    /\ ~aborted
    /\ \E time \in Times : Update([type |-> "UpdateTime", time |-> time], DefaultEnv)

OnUpdateTimeStep ==
    /\ ~aborted
    /\ \E ts \in TimeSteps :
           Update([type |-> "UpdateTimeStep", time_step |-> ts], DefaultEnv)

OnPlanetSelected ==
    /\ ~aborted
    /\ \E name \in PlanetNames :
           Update([type |-> "PlanetSelected", name |-> name], DefaultEnv)

OnRandomizePlanets ==
    /\ ~aborted
    /\ Update(Msg("RandomizePlanets"), DefaultEnv)

OnLoadRealPlanets ==
    /\ ~aborted
    /\ Update(Msg("LoadRealPlanets"), DefaultEnv)

OnRandomizeStars ==
    /\ ~aborted
    /\ \E keep_central_body \in BOOLEAN, distance \in GenerationDistances,
          random_stars \in RandomStarLists :
           \E random_central \in
                  (IF keep_central_body THEN {NoneOpt} ELSE RandomCentralBodies) :
               Update([type |-> "RandomizeStars",
                       keep_central_body |-> keep_central_body,
                       max_distance |-> max_generation_distance(distance)],
                      [DefaultEnv EXCEPT !.random_central = random_central,
                                         !.random_stars = random_stars])

OnLoadStars ==
    /\ ~aborted
    /\ \E data_type \in StarDataTypes :
           \E gaia_stars \in (IF data_type \in {"GaiaMeasurementSmall",
                                                 "GaiaMeasurementLarge"}
                              THEN GaiaResults ELSE {NoneOpt}),
              simulated_stars \in (IF data_type = "GaiaSimulation"
                                   THEN SimulationResults ELSE {NoneOpt}) :
               Update([type |-> "LoadStars", data_type |-> data_type],
                      [DefaultEnv EXCEPT !.gaia_stars = gaia_stars,
                                         !.simulated_stars = simulated_stars])

DialogTypeInputs ==
    { [type |-> t] : t \in DialogTypes \ {"EditPlanet", "EditStar"} }
    \cup { [type |-> "EditPlanet", index |-> i] : i \in BodyIndices }
    \cup { [type |-> "EditStar", star_index |-> i] : i \in OptBodyIndices }

\* whether the planet dialogs' fallible constructors are called at all
FillResults(dialog_type) ==
    IF dialog_type.type \in {"NewPlanet", "EditPlanet"} THEN BOOLEAN ELSE {TRUE}

DerivedResults(dialog_type) ==
    IF dialog_type.type = "EditPlanet" /\ dialog_type.index > 0
    THEN BOOLEAN ELSE {TRUE}

Builds(dialog_type) ==
    IF dialog_type.type = "EditPlanet" /\ dialog_type.index = 0
    THEN BOOLEAN ELSE {TRUE}

OnOpenDialog ==
    /\ ~aborted
    /\ \E dialog_type \in DialogTypeInputs :
           \E derived_ok \in DerivedResults(dialog_type),
              fill_ok \in FillResults(dialog_type),
              overflow_checks \in Builds(dialog_type) :
               Update([type |-> "OpenDialog", dialog_type |-> dialog_type],
                      [DefaultEnv EXCEPT !.derived_ok = derived_ok,
                                         !.fill_ok = fill_ok,
                                         !.overflow_checks = overflow_checks])

DialogUpdates ==
    { [kind |-> "PlanetUpdated", event |-> [type |-> "NameChanged", name |-> n]] :
          n \in PlanetNames }
    \cup { [kind |-> "PlanetUpdated",
            event |-> [type |-> "SemiMajorAxisChanged", text |-> t]] : t \in InputTexts }
    \cup { [kind |-> "PlanetUpdated", event |-> [type |-> "Randomize"]] }
    \cup { [kind |-> "RandmoizeStarsUpdated",
            event |-> [type |-> "KeepCentralBodySelected", keep_central_body |-> b]] :
          b \in BOOLEAN }
    \cup { [kind |-> "RandmoizeStarsUpdated",
            event |-> [type |-> "MaxGenerationDistanceChanged",
                       generation_distance |-> d]] : d \in GenerationDistances }

OnDialogUpdate ==
    /\ ~aborted
    /\ \E u \in DialogUpdates, random_planet \in RandomPlanets :
           \E fill_ok \in (IF u.event.type = "Randomize" THEN BOOLEAN ELSE {TRUE}) :
               Update([type |-> "DialogUpdate", update |-> u],
                      [DefaultEnv EXCEPT !.random_planet = random_planet,
                                         !.fill_ok = fill_ok])

OnDialogSubmit ==
    /\ ~aborted
    /\ \E random_central \in RandomCentralBodies, random_stars \in RandomStarLists :
           Update(Msg("DialogSubmit"),
                  [DefaultEnv EXCEPT !.random_central = random_central,
                                     !.random_stars = random_stars])

OnDialogClosed ==
    /\ ~aborted
    /\ Update(Msg("DialogClosed"), DefaultEnv)

OnErrorEncountered ==
    /\ ~aborted
    /\ \E e \in Errors : Update([type |-> "ErrorEncountered", error |-> e], DefaultEnv)

SurfaceViewUpdates ==
    [type : {"SurfaceLongitude", "ViewLongitude"}, value : {-10, 190}]
    \cup [type : {"SurfaceLatitude"}, value : {-100, 50, 100}]
    \cup [type : {"ViewLatitude"}, value : {0, 50, 100}]
    \cup [type : {"ViewportOpeningAngle"}, value : {0, 300, 630}]

\* the angles the top view's control field may send
TopViewAngleUpdates ==
    [type : {"ViewLongitude"}, value : {-10, 190}]
    \cup [type : {"ViewLatitude"}, value : {-100, 50, 100}]

TopViewUpdates ==
    [type : {"LengthScale"}, value : {1, 2}]
    \cup [type : {"ViewLongitude"}, value : {190}]
    \cup [type : {"ViewLatitude"}, value : {100}]

OnUpdateSurfaceView ==
    /\ ~aborted
    /\ \E u \in SurfaceViewUpdates :
           Update([type |-> "UpdateSurfaceView", update |-> u], DefaultEnv)

OnUpdateTopView ==
    /\ ~aborted
    /\ \E u \in TopViewUpdates :
           Update([type |-> "UpdateTopView", update |-> u], DefaultEnv)

OnUpdateTopViewAngle ==
    /\ ~aborted
    /\ \E u \in TopViewAngleUpdates :
           Update([type |-> "UpdateTopView", update |-> u], DefaultEnv)

OnSetDisplayNames ==
    /\ ~aborted
    /\ \E b \in BOOLEAN :
           Update([type |-> "SetDisplayNames", display_names |-> b], DefaultEnv)

OnSetDisplayConstellations ==
    /\ ~aborted
    /\ \E b \in BOOLEAN :
           Update([type |-> "SetDisplayConstellations", display_constellations |-> b],
                  DefaultEnv)

\* The toolkit draws the canvas of the main view: it is there when a system is
\* loaded and the mode is Surface or Top, under the dialog if one is open.
Draw ==
    /\ ~aborted
    /\ celestial_system.some
    /\ mode \in {"Surface", "Top"}
    /\ surface_view_state' = draw(Gui).surface_view_state
    /\ top_view_state' = draw(Gui).top_view_state
    /\ UNCHANGED <<celestial_system, opened_file, mode, time_step,
                   selected_planet_name, dialog, display_names,
                   display_constellations, aborted, last>>

(***************************************************************************)
(* SpecNoSystem: the program for as long as no system is created or        *)
(* opened.  Every message is sent; the steps that would load a system are  *)
(* left out.                                                               *)
(***************************************************************************)
OpenFileWithoutSystem == OnOpenFile /\ ~celestial_system'.some

DialogSubmitWithoutSystem == OnDialogSubmit /\ ~celestial_system'.some

NextNoSystem ==
    \/ OnNewPlanet \/ OnPlanetEdited \/ OnNewStar \/ OnStarEdited
    \/ OnSaveToFile \/ OnSaveToNewFile \/ OpenFileWithoutSystem
    \/ OnModeSelected \/ OnUpdateTime \/ OnUpdateTimeStep \/ OnPlanetSelected
    \/ OnRandomizePlanets \/ OnLoadRealPlanets \/ OnRandomizeStars \/ OnLoadStars
    \/ OnOpenDialog \/ OnDialogUpdate \/ DialogSubmitWithoutSystem \/ OnDialogClosed
    \/ OnErrorEncountered

SpecNoSystem == Init /\ [][NextNoSystem]_vars

(***************************************************************************)
(* SpecFiles: creating, opening and saving the document, with a planet     *)
(* added now and then and a dialog open or not.                            *)
(***************************************************************************)
NextFiles ==
    \/ OnNewSystem \/ OnNewPlanet
    \/ OnSaveToFile \/ OnSaveToNewFile \/ OnOpenFile
    \/ OnOpenDialog \/ OnDialogUpdate \/ OnDialogClosed

SpecFiles == Init /\ [][NextFiles]_vars

(***************************************************************************)
(* SpecStarsGui: creating a system, adding stars to it and generating      *)
(* random ones, directly and through the dialogs.                          *)
(***************************************************************************)
NextStarsGui ==
    \/ OnNewSystem \/ OnNewStar \/ OnRandomizeStars
    \/ OnOpenDialog \/ OnDialogSubmit \/ OnDialogClosed

SpecStarsGui == Init /\ [][NextStarsGui]_vars

(***************************************************************************)
(* SpecCentralBody: a system made by CelestialSystem::new whose central    *)
(* body is edited, and which gets new stars, through the star dialog.  The *)
(* dialog's constructors, update and on_submit and the arm of              *)
(* handle_message for the submitted message are called directly.           *)
(***************************************************************************)
CentralBodyInputs == { StarData("north", 2, 0), StarData("origin", 1, 0) }

StarDialogEvents ==
    [type : {"DistanceChanged"}, text : {"0", "2", "NaN", "abc"}]
    \cup [type : {"LuminosityChanged"}, text : {"2"}]
    \cup [type : {"LongitudeChanged"}, text : {"1"}]
    \cup [type : {"Randomize"}]

RandomStars == { NoneOpt, Some(StarData("east", 1, 0)) }

InitCentralBody ==
    /\ \E central_body \in CentralBodyInputs :
           celestial_system = Some(CelestialSystem_new(central_body))
    /\ GuiDefault
    /\ last = [op |-> "new"]

OpenStarDialog ==
    \E dialog_type \in { [type |-> "NewStar"],
                         [type |-> "EditStar", star_index |-> NoneOpt] } :
        /\ dialog = NoDialog
        /\ open_dialog(Gui, dialog_type, DefaultEnv).res = "Ok"
        /\ dialog' = open_dialog(Gui, dialog_type, DefaultEnv).g.dialog
        /\ last' = [op |-> "open_dialog"]
        /\ UNCHANGED <<celestial_system, opened_file, mode, time_step,
                       selected_planet_name, surface_view_state, top_view_state,
                       display_names, display_constellations, aborted>>

UpdateStarDialog ==
    \E event \in StarDialogEvents :
        \E random_star \in (IF event.type = "Randomize" THEN RandomStars ELSE {NoneOpt}) :
            /\ dialog.kind = "Star"
            /\ dialog' = StarDialog_update(dialog, event, random_star)
            /\ last' = [op |-> "update"]
            /\ UNCHANGED <<celestial_system, opened_file, mode, time_step,
                           selected_planet_name, surface_view_state, top_view_state,
                           display_names, display_constellations, aborted>>

SubmitStarDialog ==
    /\ dialog.kind = "Star"
    /\ dispatch(Gui, on_submit(dialog), DefaultEnv).res = "Ok"
    /\ WithinBounds(dispatch(Gui, on_submit(dialog), DefaultEnv).g)
    /\ celestial_system' = dispatch(Gui, on_submit(dialog), DefaultEnv).g.celestial_system
    /\ dialog' = dispatch(Gui, on_submit(dialog), DefaultEnv).g.dialog
    /\ last' = [op |-> "on_submit", message |-> on_submit(dialog), star |-> dialog.star]
    /\ UNCHANGED <<opened_file, mode, time_step, selected_planet_name,
                   surface_view_state, top_view_state, display_names,
                   display_constellations, aborted>>

NextCentralBody == OpenStarDialog \/ UpdateStarDialog \/ SubmitStarDialog

SpecCentralBody == InitCentralBody /\ [][NextCentralBody]_vars

(***************************************************************************)
(* SpecForms: the planet dialog and the star dialog as forms.  A system    *)
(* with a planet and a distant star is edited through the edit dialogs,    *)
(* whose                                                                   *)
(* constructors, update and on_submit and the arm of handle_message for    *)
(* the submitted message are called directly.                              *)
(***************************************************************************)
PlanetDialogEvents ==
    [type : {"SemiMajorAxisChanged"}, text : {"2", "NaN", "abc", ""}]
    \cup [type : {"NameChanged"}, name : {"Ares"}]
    \cup [type : {"Randomize"}]

StarFormEvents ==
    [type : {"LuminosityChanged"}, text : {"1", "abc", ""}]
    \cup [type : {"DistanceChanged"}, text : {"2", "abc"}]
    \cup [type : {"Randomize"}]

FormTypes ==
    { [type |-> "EditPlanet", index |-> 0],
      [type |-> "EditStar", star_index |-> NoneOpt],
      [type |-> "EditStar", star_index |-> Some(0)] }

InitForms ==
    /\ celestial_system =
           Some(add_planet_data(add_stars_from_data(empty, << StarData("north", 2, 0) >>),
                                [name |-> "", sma |-> 1]))
    /\ GuiDefault
    /\ last = [op |-> "new"]

\* in a build without overflow checks, where the first planet can be edited
FormEnv == [DefaultEnv EXCEPT !.overflow_checks = FALSE]

OpenForm ==
    \E dialog_type \in FormTypes :
        /\ dialog = NoDialog
        /\ open_dialog(Gui, dialog_type, FormEnv).res = "Ok"
        /\ dialog' = open_dialog(Gui, dialog_type, FormEnv).g.dialog
        /\ last' = [op |-> "open_dialog"]
        /\ UNCHANGED <<celestial_system, opened_file, mode, time_step,
                       selected_planet_name, surface_view_state, top_view_state,
                       display_names, display_constellations, aborted>>

UpdatePlanetForm ==
    \E event \in PlanetDialogEvents, random_planet \in RandomPlanets :
        \E fill_ok \in (IF event.type = "Randomize" THEN BOOLEAN ELSE {TRUE}) :
            /\ dialog.kind = "Planet"
            /\ dialog' = PlanetDialog_update(dialog, event, random_planet, fill_ok)
            /\ last' = [op |-> "update", event |-> event]
            /\ UNCHANGED <<celestial_system, opened_file, mode, time_step,
                           selected_planet_name, surface_view_state, top_view_state,
                           display_names, display_constellations, aborted>>

UpdateStarForm ==
    \E event \in StarFormEvents :
        \E random_star \in (IF event.type = "Randomize" THEN RandomStars ELSE {NoneOpt}) :
            /\ dialog.kind = "Star"
            /\ dialog' = StarDialog_update(dialog, event, random_star)
            /\ last' = [op |-> "update", event |-> event]
            /\ UNCHANGED <<celestial_system, opened_file, mode, time_step,
                           selected_planet_name, surface_view_state, top_view_state,
                           display_names, display_constellations, aborted>>

SubmitForm ==
    /\ dialog.kind \in {"Planet", "Star"}
    /\ dispatch(Gui, on_submit(dialog), DefaultEnv).res = "Ok"
    /\ WithinBounds(dispatch(Gui, on_submit(dialog), DefaultEnv).g)
    /\ celestial_system' = dispatch(Gui, on_submit(dialog), DefaultEnv).g.celestial_system
    /\ dialog' = dispatch(Gui, on_submit(dialog), DefaultEnv).g.dialog
    /\ last' = [op |-> "on_submit", message |-> on_submit(dialog)]
    /\ UNCHANGED <<opened_file, mode, time_step, selected_planet_name,
                   surface_view_state, top_view_state, display_names,
                   display_constellations, aborted>>

NextForms == OpenForm \/ UpdatePlanetForm \/ UpdateStarForm \/ SubmitForm

SpecForms == InitForms /\ [][NextForms]_vars

(***************************************************************************)
(* SpecOffset: offset applied to the bodies that the test                  *)
(* stars_at_boundaries places around the center of a viewport, and to      *)
(* bodies beside and behind the viewer.                                    *)
(***************************************************************************)
Axes == { <<5, 0, 0>>, <<-5, 0, 0>>, <<0, 5, 0>>, <<0, -5, 0>>, <<0, 0, 5>>, <<0, 0, -5>> }

\* the sine and the cosine of the angle between center and top, times UnitLength
HalfOpeningAngles == { [sin |-> 3, cos |-> 4], [sin |-> 4, cos |-> 3] }

PxPerDistance == {1, 2}

Places == {"center", "top", "left", "bottom", "right", "beside", "behind"}

\* Direction::rotated by -90 degrees around axis
rotated_clockwise(v, axis) ==
    LET along == dot(v, axis)
        turned == cross(v, axis)
    IN  [i \in 1 .. 3 |->
             turned[i] \div UnitLength + (along * axis[i]) \div (UnitLength * UnitLength)]

\* the direction of the body at a place of the viewport
body_at(place, center, top) ==
    LET left == rotated_clockwise(top, center)
        bottom == rotated_clockwise(left, center)
        right == rotated_clockwise(bottom, center)
    IN  CASE place = "center" -> center
          [] place = "top" -> top
          [] place = "left" -> left
          [] place = "bottom" -> bottom
          [] place = "right" -> right
          [] place = "beside" ->
                 scaled(cross(top, center), UnitLength, norm(cross(top, center)))
          [] place = "behind" -> << -bottom[1], -bottom[2], -bottom[3] >>

InitOffset ==
    /\ celestial_system = NoneOpt
    /\ GuiDefault
    /\ \E center \in Axes, towards \in Axes, angle \in HalfOpeningAngles,
          px_per_distance \in PxPerDistance, place \in Places :
           /\ dot(center, towards) = 0
           /\ last = [op |-> "viewport", place |-> place, angle |-> angle,
                      viewport |-> Viewport(center,
                                            [i \in 1 .. 3 |->
                                                (angle.cos * center[i]
                                                    + angle.sin * towards[i]) \div UnitLength],
                                            px_per_distance)]

Offset ==
    /\ last.op = "viewport"
    /\ last' = [op |-> "offset", place |-> last.place, angle |-> last.angle,
                viewport |-> last.viewport,
                center_offset |->
                    offset(body_at(last.place, last.viewport.center_direction,
                                   last.viewport.top_direction), last.viewport)]
    /\ UNCHANGED <<celestial_system, gui_vars>>

NextOffset == Offset

SpecOffset == InitOffset /\ [][NextOffset]_vars

(***************************************************************************)
(* SpecRadius: color_and_radius applied to two bodies.                     *)
(***************************************************************************)
\* illuminances from far below the reference to far above the illuminance at
\* which the radius reaches its limit, the reference itself and its neighbours
LogIlluminances ==
    {-60000, -20000, -7098, -7097, -7096, -6000, 0, 5000, 13877, 13878, 20000}

Illuminances == {Zero, NotANumber} \cup { Positive(log) : log \in LogIlluminances }

InitRadius ==
    /\ celestial_system = NoneOpt
    /\ GuiDefault
    /\ \E a \in Illuminances, b \in Illuminances :
           last = [op |-> "appearances", illuminance |-> <<a, b>>]

ColorAndRadius ==
    /\ last.op = "appearances"
    /\ last' = [op |-> "color_and_radius", illuminance |-> last.illuminance,
                drawn |-> << color_and_radius(last.illuminance[1]),
                             color_and_radius(last.illuminance[2]) >>]
    /\ UNCHANGED <<celestial_system, gui_vars>>

NextRadius == ColorAndRadius

SpecRadius == InitRadius /\ [][NextRadius]_vars

(***************************************************************************)
(* SpecEdit: a system that gets planets and stars, some of the stars from  *)
(* a catalog, and whose bodies are edited: the edit dialogs are opened and *)
(* the messages they would submit are sent.                                *)
(***************************************************************************)
NextEdit ==
    \/ OnNewSystem \/ OnNewPlanet \/ OnNewStar \/ OnLoadStars
    \/ OnPlanetEdited \/ OnStarEdited
    \/ OnOpenDialog \/ OnDialogClosed

SpecEdit == Init /\ [][NextEdit]_vars

(***************************************************************************)
(* SpecDialogs: a system whose planets are made in the planet dialog,      *)
(* with the other messages arriving while the dialog is open or closed.    *)
(***************************************************************************)
OpenPlanetDialog == OnOpenDialog /\ last'.msg.dialog_type \in {"NewPlanet", "EditPlanet"}

NextDialogs ==
    \/ OnNewSystem \/ OpenPlanetDialog \/ OnDialogUpdate \/ OnDialogSubmit
    \/ OnDialogClosed \/ OnErrorEncountered \/ OnRandomizePlanets

SpecDialogs == Init /\ [][NextDialogs]_vars

(***************************************************************************)
(* SpecCanvas: the canvases being drawn between the messages that change   *)
(* what they show.                                                         *)
(***************************************************************************)
NextCanvas ==
    \/ OnNewSystem \/ OnRandomizeStars \/ OnModeSelected
    \/ OnUpdateTopView \/ OnDialogClosed \/ Draw

SpecCanvas == Init /\ [][NextCanvas]_vars

(***************************************************************************)
(* Errors and the error dialog (C5, C7).                                   *)
(***************************************************************************)
\* the handling of the last message has failed with an error, or else the
\* handling of the RandomizeStars that the submitted random-stars dialog
\* produced for the loaded system
LastFailed ==
    \/ last.res = "Err"
    \/ /\ last.msg.type = "DialogSubmit"
       /\ last.nested.some
       /\ last.nested.v.type = "RandomizeStars"
       /\ last.nested.v.res = "Err"
       /\ celestial_system.some

\* C5, as stated: whenever the handling of a message fails with an error, the
\* message produced by DialogSubmit included, the update ends with an error
\* dialog open.
C5_Original == LastFailed => dialog.kind = "Error"

\* the messages C7 lists
NeedSystem ==
    { [type |-> t] : t \in {"NewPlanet", "PlanetEdited", "NewStar", "StarEdited",
                            "UpdateTime", "RandomizePlanets", "LoadRealPlanets",
                            "RandomizeStars"} }
    \cup { [type |-> "LoadStars", data_type |-> t] : t \in StarDataTypes }
    \cup { [type |-> "OpenDialog", dialog_type |-> t] :
               t \in {"NewPlanet", "EditPlanet", "NewStar", "EditStar"} }

\* C7: with no system loaded, each of the messages of NeedSystem fails with
\* NoCelestialSystem; afterwards there is still no system, the error dialog with
\* that error is open, and opened_file, mode, time_step and
\* selected_planet_name are what they were.
C7_NoSystem ==
    [][(~celestial_system.some /\ last'.msg \in NeedSystem) =>
           /\ last'.res = "Err"
           /\ last'.error = "NoCelestialSystem"
           /\ ~celestial_system'.some
           /\ dialog' = ErrorDialog("NoCelestialSystem")
           /\ opened_file' = opened_file
           /\ mode' = mode
           /\ time_step' = time_step
           /\ selected_planet_name' = selected_planet_name]_vars

\* EditStar is asked for with no system, after the user has changed every
\* setting that can be changed without one
C7_Witness ==
    /\ ~celestial_system.some
    /\ last.msg = [type |-> "OpenDialog", dialog_type |-> "EditStar"]
    /\ last.res = "Err"
    /\ last.error = "NoCelestialSystem"
    /\ dialog = ErrorDialog("NoCelestialSystem")
    /\ opened_file = Some("a.json")
    /\ mode = "Table"
    /\ time_step = 2
    /\ selected_planet_name = "Ares"

(***************************************************************************)
(* Random stars (C6).                                                      *)
(***************************************************************************)
\* RandomizeStars, sent or produced by DialogSubmit, has succeeded
RandomizedStars ==
    \/ last.msg.type = "RandomizeStars" /\ last.res = "Ok"
    \/ /\ last.msg.type = "DialogSubmit"
       /\ last.nested.some
       /\ last.nested.v.type = "RandomizeStars"
       /\ last.nested.v.res = "Ok"

\* C6, as stated: after a successful RandomizeStars the distant stars of the
\* system are the generated stars and no others.
C6_Original ==
    RandomizedStars =>
        /\ Len(sys.distant_stars) = Len(last.random_stars.v)
        /\ \A i \in DOMAIN sys.distant_stars :
               /\ sys.distant_stars[i].data.some
               /\ \E j \in DOMAIN last.random_stars.v :
                      sys.distant_stars[i].data.v = last.random_stars.v[j]

(***************************************************************************)
(* The document and its file (C8 - C10).                                   *)
(***************************************************************************)
\* the open dialog, if any, reports no error: the message gets to the match of
\* handle_message
Dispatches == ~pre_check(Gui).panic /\ ~pre_check(Gui).error.some

\* C8: with a system loaded, SaveToFile writes to the remembered path without
\* prompting; with no path remembered it prompts once, remembers the path that
\* was chosen and writes to it, and the SaveToFile that follows writes to that
\* path without prompting; SaveToNewFile always prompts.  (Of a message that
\* gets to the match of handle_message.)
C8_Save ==
    [][(celestial_system.some /\ Dispatches) =>
           /\ (last'.msg.type = "SaveToFile" /\ opened_file.some) =>
                  /\ last'.io.prompts = 0
                  /\ last'.io.write = opened_file
                  /\ opened_file' = opened_file
           /\ (last'.msg.type = "SaveToFile" /\ ~opened_file.some) =>
                  /\ last'.io.prompts = 1
                  /\ opened_file' = last'.io.chosen
                  /\ last'.io.write = last'.io.chosen
           /\ (/\ last.msg.type = "SaveToFile"
               /\ last.io.prompts = 1
               /\ last.io.chosen.some
               /\ last'.msg.type = "SaveToFile") =>
                  /\ last'.io.prompts = 0
                  /\ last'.io.write = last.io.chosen
           /\ last'.msg.type = "SaveToNewFile" =>
                  /\ last'.io.prompts = 1
                  /\ opened_file' = last'.io.chosen
                  /\ last'.io.write = last'.io.chosen]_vars

\* a system with a planet has been written to the remembered path, no question
\* asked
C8_Witness ==
    /\ celestial_system.some
    /\ Len(sys.planets) = 1
    /\ last.msg.type = "SaveToFile"
    /\ last.res = "Ok"
    /\ last.io.prompts = 0
    /\ last.io.written
    /\ last.io.write = Some("b.json")
    /\ opened_file = Some("b.json")

\* C9, as stated: when the file OpenFile was given cannot be read, the system
\* and opened_file are what they were before.  (Stated for a document that has
\* a file, with no dialog open.)
C9_Original ==
    [][(/\ celestial_system.some
        /\ opened_file.some
        /\ dialog = NoDialog
        /\ last'.msg.type = "OpenFile"
        /\ last'.io.read.some
        /\ last'.res = "Err") =>
           /\ celestial_system' = celestial_system
           /\ opened_file' = opened_file]_vars

\* C10, as stated: when the file chooser of OpenFile or SaveToNewFile is
\* cancelled, nothing is read or written and opened_file and the system are
\* what they were before.  (Stated for a loaded system, with no dialog open.)
C10_Original ==
    [][(/\ celestial_system.some
        /\ dialog = NoDialog
        /\ last'.msg.type \in {"OpenFile", "SaveToNewFile"}
        /\ last'.io.prompts = 1
        /\ ~last'.io.chosen.some) =>
           /\ ~last'.io.read.some
           /\ ~last'.io.write.some
           /\ celestial_system' = celestial_system
           /\ opened_file' = opened_file]_vars

(***************************************************************************)
(* The canvas caches (C11).                                                *)
(***************************************************************************)
\* C11, as stated, for the top view: whenever the top view is the active view
\* of a loaded system and its bodies cache holds a drawing, that drawing was
\* made from the present system, selected planet, display of names and view
\* parameters, so every change to them has been followed by a clearing of the
\* cache; also when the message that made the change ended in an error.
C11_Original ==
    (/\ ~aborted
     /\ celestial_system.some
     /\ mode = "Top"
     /\ top_view_state.bodies_cache.filled) =>
        top_view_state.bodies_cache.drawn_from = top_view_bodies(Gui)

(***************************************************************************)
(* Editing bodies that are not there (C12, C17).                           *)
(***************************************************************************)
\* the message handled by the step asks for the edit dialog of a planet, or of
\* a distant star, whose data the system does not have
EditOfMissingBody ==
    /\ celestial_system.some
    /\ last'.msg.type = "OpenDialog"
    /\ last'.index.some
    /\ \/ /\ last'.msg.dialog_type = "EditPlanet"
          /\ last'.index.v >= Len(sys.planets)
       \/ /\ last'.msg.dialog_type = "EditStar"
          /\ \/ last'.index.v >= Len(sys.distant_stars)
             \/ ~sys.distant_stars[last'.index.v + 1].data.some

\* C12: OpenDialog(EditPlanet(i)) with i not less than the number of planets,
\* and OpenDialog(EditStar(Some(i))) with no star data at i (i out of range, or
\* the star at i an appearance only), fail with BodyNotFound: the error dialog
\* with that error is open afterwards and the system is what it was.  (Of a
\* message that gets to the match of handle_message.)
C12_BodyNotFound ==
    [][(Dispatches /\ EditOfMissingBody) =>
           /\ last'.res = "Err"
           /\ last'.error = "BodyNotFound"
           /\ dialog' = ErrorDialog("BodyNotFound")
           /\ celestial_system' = celestial_system]_vars

\* the edit dialog was asked for the second star, which came from the catalog
\* and has no data
C12_Witness ==
    /\ celestial_system.some
    /\ Len(sys.distant_stars) = 2
    /\ sys.distant_stars[1].data.some
    /\ ~sys.distant_stars[2].data.some
    /\ last.msg = [type |-> "OpenDialog", dialog_type |-> "EditStar"]
    /\ last.index = Some(1)
    /\ last.res = "Err"
    /\ last.error = "BodyNotFound"
    /\ dialog = ErrorDialog("BodyNotFound")

(***************************************************************************)
(* The central body (C13).                                                 *)
(***************************************************************************)
\* C13: the central body of a system made by CelestialSystem::new is at
\* distance zero and stays there through the edits of the central body that the
\* star dialog submits: the StarEdited(None, star) of on_submit carries a star
\* at distance zero whatever the dialog's star has become.
C13_CentralBodyAtOrigin ==
    /\ celestial_system.some => sys.central_body.pos = "origin"
    /\ (dialog.kind = "Star" /\ is_central_body(dialog)) =>
           /\ on_submit(dialog).type = "StarEdited"
           /\ on_submit(dialog).index = NoneOpt
           /\ on_submit(dialog).star.pos = "origin"

\* the central body was given another luminosity and, in the dialog, a distance
\* that is not zero, and the edit has been submitted
C13_Witness ==
    /\ last.op = "on_submit"
    /\ last.message.type = "StarEdited"
    /\ last.message.index = NoneOpt
    /\ last.star.pos = "north"
    /\ last.star.lum = 2
    /\ sys.central_body = StarData("origin", 2, 0)
    /\ dialog = NoDialog

(***************************************************************************)
(* The projection onto the canvas of the surface view (C14).               *)
(***************************************************************************)
\* C14: the body in the center direction of the viewport gets the offset
\* (0, 0); the bodies at the angle of the top direction from the center,
\* towards top, left, bottom and right, get (0, -d), (-d, 0), (0, d) and
\* (d, 0), d being sin(angle) * px_per_distance; a body with no positive
\* component along the center direction gets no offset.
C14_Offsets ==
    last.op = "offset" =>
        LET d == last.angle.sin * last.viewport.px_per_distance
            body == body_at(last.place, last.viewport.center_direction,
                            last.viewport.top_direction)
        IN  /\ last.place = "center" => last.center_offset = Some(<<0, 0>>)
            /\ last.place = "top" => last.center_offset = Some(<<0, -d>>)
            /\ last.place = "left" => last.center_offset = Some(<<-d, 0>>)
            /\ last.place = "bottom" => last.center_offset = Some(<<0, d>>)
            /\ last.place = "right" => last.center_offset = Some(<<d, 0>>)
            /\ dot(body, last.viewport.center_direction) <= 0 =>
                   last.center_offset = NoneOpt

\* a body to the left of a viewport that looks along -y with its top tilted
\* towards z
C14_Witness ==
    /\ last.op = "offset"
    /\ last.place = "left"
    /\ last.viewport = Viewport(<<0, -5, 0>>, <<0, -4, 3>>, 2)
    /\ last.center_offset = Some(<<-6, 0>>)

(***************************************************************************)
(* The radius and the opacity of a drawn body (C15).                       *)
(***************************************************************************)
\* the radius that grows as a power of the ratio of the illuminance to the
\* reference, with the upper limit
GrownRadius(illuminance) ==
    LET grown == product(powf(as_f32(quotient(illuminance, illuminance_at_min_radius)),
                              RADIUS_EXPONENT), MIN_RADIUS)
    IN  IF less(MAX_RADIUS, grown) THEN MAX_RADIUS ELSE grown

C16_Original == [][dialog.kind = "Star" => ~aborted']_vars

(***************************************************************************)
(* Edits of a body that is not there (C17).                                *)
(***************************************************************************)
EditedOutOfRange ==
    /\ celestial_system.some
    /\ last'.index.some
    /\ \/ last'.msg.type = "PlanetEdited" /\ last'.index.v >= Len(sys.planets)
       \/ last'.msg.type = "StarEdited" /\ last'.index.v >= Len(sys.distant_stars)

\* C17, as stated: PlanetEdited(i, data) with i not less than the number of
\* planets, and StarEdited(Some(i), data) with i not less than the number of
\* distant stars, open the error dialog, leave the system as it was and do
\* not abort the program.  (Of a message that gets to the match of
\* handle_message.)
C17_Original ==
    [][(Dispatches /\ EditedOutOfRange) =>
           /\ ~aborted'
           /\ dialog'.kind = "Error"
           /\ celestial_system' = celestial_system]_vars

(***************************************************************************)
(* Saving without a system (C18).                                          *)
(***************************************************************************)
\* C18, as stated: SaveToFile and SaveToNewFile handled while no system is
\* loaded fail with NoCelestialSystem, leave opened_file as it was and do not
\* ask the user for a path.  (Of a message that gets to the match of
\* handle_message.)
C18_Original ==
    [][(Dispatches /\ ~celestial_system.some
            /\ last'.msg.type \in {"SaveToFile", "SaveToNewFile"}) =>
           /\ last'.res = "Err"
           /\ last'.error = "NoCelestialSystem"
           /\ opened_file' = opened_file
           /\ last'.io.prompts = 0]_vars

(***************************************************************************)
(* A catalog that cannot be fetched (C19).                                 *)
(***************************************************************************)
\* the system with the Sun as central body and without distant stars
WithSunOnly == [sys EXCEPT !.central_body = Sun, !.distant_stars = <<>>]

\* C19: when LoadStars fails because the catalog cannot be fetched, the system
\* is not put back: its central body is the Sun and the distant stars it had
\* are gone.  For the two Gaia measurement types the hardcoded stars, sorted
\* and indexed, are its distant stars; for the Gaia simulation it has none.
\* Planets and time are what they were.
C19_NoRecovery ==
    [][(Dispatches /\ celestial_system.some
            /\ last'.msg.type = "LoadStars" /\ last'.res = "Err") =>
           /\ celestial_system'.some
           /\ celestial_system'.v.central_body = Sun
           /\ last'.msg.data_type \in {"GaiaMeasurementSmall", "GaiaMeasurementLarge",
                                       "GaiaSimulation"}
           /\ last'.msg.data_type = "GaiaSimulation" =>
                  celestial_system'.v = WithSunOnly
           /\ last'.msg.data_type # "GaiaSimulation" =>
                  celestial_system'.v = add_stars_from_data(WithSunOnly, HardcodedStars)]_vars

\* a system with a planet, whose stars were to come from the small Gaia
\* catalog, is left with the Sun and the hardcoded star
C19_Witness ==
    /\ last.msg = [type |-> "LoadStars", data_type |-> "GaiaMeasurementSmall"]
    /\ last.res = "Err"
    /\ dialog.kind = "Error"
    /\ celestial_system.some
    /\ sys.central_body = Sun
    /\ Len(sys.planets) = 1
    /\ Len(sys.distant_stars) = Len(HardcodedStars)
    /\ sys.distant_stars[1].data = Some(HardcodedStars[1])
    /\ sys.distant_stars[1].index = Some(0)

(***************************************************************************)
(* A dialog that reports an error (C20).                                   *)
(***************************************************************************)
DialogReportsError ==
    /\ dialog.kind # None
    /\ ~get_error(dialog).panic
    /\ get_error(dialog).error.some

\* C20: when the open dialog reports an error, the next message, of whatever
\* kind, is not dispatched: its handling returns that error without reading
\* or writing a file or asking for one, the system and the rest of the Gui are
\* what they were, and the dialog is replaced by the error dialog with that
\* error.
C20_NotDispatched ==
    [][DialogReportsError =>
           /\ ~aborted'
           /\ last'.res = "Err"
           /\ last'.error = get_error(dialog).error.v
           /\ last'.io = NoIo
           /\ last'.nested = NoneOpt
           /\ dialog' = ErrorDialog(get_error(dialog).error.v)
           /\ UNCHANGED <<celestial_system, opened_file, mode, time_step,
                          selected_planet_name, surface_view_state, top_view_state,
                          display_names, display_constellations>>]_vars

\* the planet dialog whose Randomize had failed was submitted
C20_Witness ==
    /\ last.msg = [type |-> "DialogSubmit"]
    /\ last.res = "Err"
    /\ last.nested = NoneOpt
    /\ celestial_system.some
    /\ dialog.kind = "Error"
    /\ dialog.error = last.error

(***************************************************************************)
(* DialogSubmit (C21).                                                     *)
(***************************************************************************)
\* C21, as stated: the handling of DialogSubmit with a dialog open dispatches
\* exactly one nested message, the one that the dialog's on_submit returns,
\* which is not DialogSubmit, so that the handling ends; with no dialog open
\* it dispatches none and leaves the system and the dialog as they were.
C21_Original ==
    [][last'.msg.type = "DialogSubmit" =>
           /\ dialog.kind # None =>
                  /\ last'.nested.some
                  /\ last'.nested.v.type = on_submit(dialog).type
                  /\ last'.nested.v.type # "DialogSubmit"
           /\ dialog.kind = None =>
                  /\ ~last'.nested.some
                  /\ celestial_system' = celestial_system
                  /\ dialog' = dialog]_vars

(***************************************************************************)
(* An edit dialog submitted as it was opened (C22).                        *)
(***************************************************************************)
\* the edit dialog of a planet or a star has just been opened and is now
\* submitted
SubmittedAsOpened ==
    /\ last.msg.type = "OpenDialog"
    /\ last.msg.dialog_type \in {"EditPlanet", "EditStar"}
    /\ last.res = "Ok"
    /\ last'.msg.type = "DialogSubmit"

\* C22, as stated: an edit dialog that is opened for a planet or a star and
\* submitted without an update in between sends PlanetEdited or StarEdited
\* with the stored data, and the system is afterwards what it was.
C22_Original ==
    [][SubmittedAsOpened =>
           /\ last'.nested.some
           /\ last'.nested.v.type \in {"PlanetEdited", "StarEdited"}
           /\ last'.nested.v.res = "Ok"
           /\ celestial_system' = celestial_system]_vars

(***************************************************************************)
(* Texts that are no numbers (C23).                                        *)
(***************************************************************************)
NumericEvents == {"SemiMajorAxisChanged", "LuminosityChanged", "DistanceChanged"}

\* what an update of a numeric field does: a text that is no number leaves
\* the body of the dialog as it was; the planet dialog then keeps the
\* displayed string too, the star dialog displays the text
NumericUpdate ==
    (last'.op = "update" /\ last'.event.type \in NumericEvents) =>
        IF parse_f64(last'.event.text).some
        THEN /\ last'.event.type = "SemiMajorAxisChanged" =>
                    /\ dialog'.planet.sma = parse_f64(last'.event.text).v
                    /\ dialog'.semi_major_axis_string = last'.event.text
             /\ last'.event.type = "LuminosityChanged" =>
                    /\ dialog'.star.lum = parse_f64(last'.event.text).v
                    /\ dialog'.luminosity_string = last'.event.text
        ELSE /\ dialog.kind = "Planet" => dialog' = dialog
             /\ dialog.kind = "Star" =>
                    /\ dialog'.star = dialog.star
                    /\ last'.event.type = "LuminosityChanged" =>
                           dialog'.luminosity_string = last'.event.text

\* the body that a submitted message carries
Body(message) ==
    IF message.type \in {"NewPlanet", "PlanetEdited"} THEN message.planet
    ELSE message.star

C24_NewSystemKeepsFile ==
    [][Dispatches =>
           /\ last'.msg.type = "NewSystem" =>
                  /\ last'.res = "Ok"
                  /\ celestial_system' = Some(empty)
                  /\ dialog' = NoDialog
                  /\ opened_file' = opened_file
           /\ (/\ last.msg.type = "NewSystem"
               /\ last.res = "Ok"
               /\ opened_file.some
               /\ last'.msg.type = "SaveToFile") =>
                  /\ celestial_system = Some(empty)
                  /\ last'.io.prompts = 0
                  /\ last'.io.write = opened_file
                  /\ last'.io.written = (last'.res = "Ok")
                  /\ opened_file' = opened_file]_vars

\* the empty system has been written to the remembered file, no path asked for
C24_Witness ==
    /\ last.msg.type = "SaveToFile"
    /\ last.res = "Ok"
    /\ last.io.prompts = 0
    /\ last.io.written
    /\ opened_file.some
    /\ last.io.write = opened_file
    /\ celestial_system = Some(empty)

(***************************************************************************)
(* Random planets (C25).                                                   *)
(***************************************************************************)
\* C25, as stated: RandomizePlanets handled with a system loaded does not
\* abort the program, closes the dialog and leaves the planets in the order
\* of their semi-major axes.  (Of a message that gets to the match of
\* handle_message.)
C25_Original ==
    [][(Dispatches /\ celestial_system.some /\ last'.msg.type = "RandomizePlanets") =>
           /\ ~aborted'
           /\ last'.res = "Ok"
           /\ dialog' = NoDialog
           /\ \A i, j \in DOMAIN celestial_system'.v.planets :
                  i < j => partial_cmp(celestial_system'.v.planets[j].sma,
                                       celestial_system'.v.planets[i].sma) # "Less"]_vars

(***************************************************************************)
(* The planet before the edited one (C26).                                 *)
(***************************************************************************)
\* the edit dialog is asked for a planet that exists, and the making of the
\* dialog does not fail with an error
EditOfPlanet ==
    /\ celestial_system.some
    /\ last'.msg = [type |-> "OpenDialog", dialog_type |-> "EditPlanet"]
    /\ last'.index.v < Len(sys.planets)
    /\ last'.res # "Err"

\* C26, as stated: OpenDialog(EditPlanet(i)) for a planet that exists opens
\* the planet dialog for that planet without aborting; the dialog's previous
\* planet is none for i = 0 and the planet at i - 1 otherwise.  (Of a message
\* that gets to the match of handle_message.)
C26_Original ==
    [][(Dispatches /\ EditOfPlanet) =>
           /\ ~aborted'
           /\ dialog'.kind = "Planet"
           /\ dialog'.planet_index = last'.index
           /\ dialog'.planet = sys.planets[last'.index.v + 1]
           /\ dialog'.previous_planet =
                  (IF last'.index.v = 0 THEN NoneOpt
                   ELSE Some(sys.planets[last'.index.v]))]_vars

(***************************************************************************)
(* Stars of a catalog that are known already (C27).                        *)
(***************************************************************************)
\* the stars of the list that are apparently the same as the known star
Matching(stars, known_star) ==
    { i \in DOMAIN stars : apparently_the_same(stars[i].appearance, known_star) }

\* C27, as stated: add_star_appearances_without_duplicates adds no star that
\* is apparently the same as a distant star that was there before the call:
\* of each such star the system has as many apparent likenesses after the call
\* as before.
C27_Original ==
    [][last'.op = "add_star_appearances_without_duplicates" =>
           \A k \in DOMAIN sys.distant_stars :
               Cardinality(Matching(celestial_system'.v.distant_stars,
                                    sys.distant_stars[k].appearance))
                   = Cardinality(Matching(sys.distant_stars,
                                          sys.distant_stars[k].appearance))]_vars

\* the planet the views are centred on: the selected planet's data without
\* an index and without a predecessor
get_selected_planet(g) ==
    IF g.celestial_system.some /\ get_selected_planet_data(g).some
    THEN Some([data |-> get_selected_planet_data(g).v, index |-> NoneOpt])
    ELSE NoneOpt

\* C28: while selected_planet_name is the empty string, neither
\* get_selected_planet_data nor get_selected_planet returns a planet, in every
\* reachable system, those holding a planet created without a name included.
C28_Original ==
    Gui.selected_planet_name = ""
        => /\ ~get_selected_planet_data(Gui).some
           /\ ~get_selected_planet(Gui).some

(***************************************************************************)
(* The rows of the table view.                                             *)
(***************************************************************************)
\* Planet::new(data, central_body, previous, time, Some(i)): of a planet the
\* row keeps its data and its index
get_planets(sys_) ==
    [i \in 1 .. Len(sys_.planets) |-> [data |-> sys_.planets[i], index |-> Some(i - 1)]]

\* StarData::get_fate and get_time_until_death of astro_utils follow from a
\* star's mass and age; here the stars of illuminance 1 and more end as
\* supernovae, and the brighter a star the sooner (of a lifetime of 10)
get_fate(data) ==
    IF data.lum # NaN /\ data.lum >= 1 THEN "TypeIISupernova" ELSE "WhiteDwarf"

get_time_until_death(data, time_since_epoch) == (10 - data.lum) - time_since_epoch

ord_by_time_til_death(sys_, a, b) ==
    IF a.data.some /\ b.data.some
    THEN unwrap_or_Equal(
             partial_cmp(get_time_until_death(a.data.v, sys_.time_since_epoch),
                         get_time_until_death(b.data.v, sys_.time_since_epoch)))
    ELSE "Equal"

\* Vec::sort_by is stable
RECURSIVE insert_by_time_til_death(_, _, _)
insert_by_time_til_death(sys_, sorted, s) ==
    IF sorted = <<>> THEN <<s>>
    ELSE LET tail == sorted[Len(sorted)]
         IN  IF ord_by_time_til_death(sys_, s, tail) = "Less"
             THEN Append(insert_by_time_til_death(
                             sys_, SubSeq(sorted, 1, Len(sorted) - 1), s), tail)
             ELSE Append(sorted, s)

RECURSIVE sorted_by_time_til_death(_, _)
sorted_by_time_til_death(sys_, s) ==
    IF s = <<>> THEN <<>>
    ELSE insert_by_time_til_death(
             sys_, sorted_by_time_til_death(sys_, SubSeq(s, 1, Len(s) - 1)), s[Len(s)])

is_supernova(s) == s.data.some /\ get_fate(s.data.v) = "TypeIISupernova"

\* supernovae numbered by their place in the sorted list
get_supernovae_by_place(sys_) ==
    LET supernovae == sorted_by_time_til_death(sys_, SelectSeq(get_stars(sys_), is_supernova))
    IN  [k \in 1 .. Len(supernovae) |-> set_index(supernovae[k], k - 1)]

get_supernovae(sys_) ==
    sorted_by_time_til_death(sys_, SelectSeq(get_stars(sys_), is_supernova))

NextTable ==
    \/ OnNewSystem \/ OnNewPlanet \/ OnNewStar \/ OnLoadStars
    \/ OnPlanetEdited \/ OnStarEdited \/ OnUpdateTime

SpecTable == Init /\ [][NextTable]_vars

\* the Edit button of a star's row opens EditStar(index) of the star's data
OwnData(sys_, stars) ==
    \A k \in DOMAIN stars : get_star_data(sys_, stars[k].index) = stars[k].data

\* C29: every row of the tables addresses its own body: the planet at place i
\* of get_planets has index Some(i) and get_planet_data(i) is its data; every
\* star of get_stars and of get_supernovae has an index for which
\* get_star_data returns the star's own data, None being the central body.
C29_Rows ==
    celestial_system.some =>
        /\ \A i \in DOMAIN get_planets(sys) :
               /\ get_planets(sys)[i].index = Some(i - 1)
               /\ get_planet_data(sys, i - 1) = Some(get_planets(sys)[i].data)
        /\ OwnData(sys, get_stars(sys))
        /\ OwnData(sys, get_supernovae(sys))

\* after a time change: two planets, and a distant star that is listed as a
\* supernova ahead of the central body
C29_Witness ==
    /\ celestial_system.some
    /\ last.msg.type = "UpdateTime"
    /\ last.res = "Ok"
    /\ sys.time_since_epoch > 0
    /\ Len(get_planets(sys)) >= 2
    /\ Len(get_supernovae(sys)) >= 2
    /\ get_supernovae(sys)[1].index.some
    /\ get_supernovae(sys)[2].index = NoneOpt

(***************************************************************************)
(* The parameters of the two views.                                        *)
(***************************************************************************)
NextViews == OnUpdateSurfaceView \/ OnUpdateTopViewAngle \/ OnModeSelected

SpecViews == Init /\ [][NextViews]_vars

Within(x, lo, hi) == lo <= x /\ x <= hi

Normalized(angle) == Within(angle, -180, 180) /\ normalized_angle(angle) = angle

\* what an update of the given kind stores of a value beyond [lo, hi]
StoresBound(view, kind, stored, lo, hi) ==
    (last.msg.type = view /\ last.msg.update.type = kind) =>
        /\ last.msg.update.value < lo => stored = lo
        /\ last.msg.update.value > hi => stored = hi
        /\ Within(last.msg.update.value, lo, hi) => stored = last.msg.update.value

\* C30: after any sequence of view updates the surface latitude is within
\* [-90, 90] degrees, the observer latitude within [10, 90] degrees, the
\* viewport opening angle within [0.1, 2 pi] steradian (in hundredths), the
\* surface and the view longitudes are normalized and the latitude of the top
\* view is within [-90, 90] degrees; an update beyond a bound stores the bound.
C30_InRange ==
    /\ Within(surface_view_state.surface_latitude, -90, 90)
    /\ Within(surface_view_state.view_latitude, 10, 90)
    /\ Within(surface_view_state.viewport_opening_angle, 10, 628)
    /\ Normalized(surface_view_state.surface_longitude)
    /\ Normalized(surface_view_state.view_longitude)
    /\ Normalized(top_view_state.view_longitude)
    /\ Within(top_view_state.view_latitude, -90, 90)
    /\ StoresBound("UpdateSurfaceView", "SurfaceLatitude",
                   surface_view_state.surface_latitude, -90, 90)
    /\ StoresBound("UpdateSurfaceView", "ViewLatitude",
                   surface_view_state.view_latitude, 10, 90)
    /\ StoresBound("UpdateSurfaceView", "ViewportOpeningAngle",
                   surface_view_state.viewport_opening_angle, 10, 628)
    /\ StoresBound("UpdateTopView", "ViewLatitude",
                   top_view_state.view_latitude, -90, 90)

\* an observer latitude of 0 degrees was sent and 10 degrees are stored, with
\* the other parameters at a bound or wrapped around
C30_Witness ==
    /\ last.msg.type = "UpdateSurfaceView"
    /\ last.msg.update = [type |-> "ViewLatitude", value |-> 0]
    /\ surface_view_state.view_latitude = 10
    /\ surface_view_state.surface_latitude = 90
    /\ surface_view_state.viewport_opening_angle = 628
    /\ surface_view_state.surface_longitude = -170
    /\ top_view_state.view_latitude = -90
    /\ top_view_state.view_longitude = -170
====
